---- MODULE Spec2Model ----
(***************************************************************************)
(* A model of the df columnar table library: the typed Column store, the   *)
(* DataFrame table with its row and column operations, and (further down)  *)
(* the binary codec, the CSV codec and the hash join.                       *)
(*                                                                          *)
(* Conventions.                                                             *)
(*  - A string (a column name, a String cell, a CSV field) is a sequence of *)
(*    one-character strings, so that its length and its bytes exist.        *)
(*  - An Int64 cell is an integer.  TLC's integers are 32 bits wide, so the *)
(*    model's Int64 cells range over a few small values and INT64_MIN       *)
(*    stands for numeric_limits<int64_t>::min(); the program never does     *)
(*    arithmetic on it, it only compares, copies and hashes it.             *)
(*  - A Double cell is an integer counting halves (3 is 1.5) and DBL_LOWEST *)
(*    stands for numeric_limits<double>::lowest().                          *)
(*  - A size_t counter that the code decrements below zero wraps to         *)
(*    2^64 - k; the model writes that value as -k.                          *)
(*  - An operation is an operator from the table (and its arguments) to the *)
(*    table it leaves behind and the exception it threw ("none" if it       *)
(*    returned); a throw part-way leaves the partly changed table behind.   *)
(***************************************************************************)
EXTENDS Integers, Sequences, FiniteSets, TLC

VARIABLES
    df,    \* the DataFrame object: columns, column_info, rows, cols
    last,  \* the last call made: its name, the exception it threw, its result
    cobj,  \* a Column object on its own
    io,    \* a run of a codec: the table written, the bytes or text, the table read
    jn     \* a run of a join: its operands and its result

vars == <<df, last, cobj, io, jn>>

(***************************************************************************)
(* Bounds of the model.                                                    *)
(***************************************************************************)
MaxRows == 2        \* the table machine builds columns of at most this length
MaxSkew == 1        \* how far a stale null_count may drift from the truth

(***************************************************************************)
(* Null encoding (utils.h).                                                *)
(***************************************************************************)
INT64_MIN == -2147483647
DBL_LOWEST == -2147483646

Types == {"Int64", "Double", "String"}

get_null(T) ==
    CASE T = "Int64" -> INT64_MIN
      [] T = "Double" -> DBL_LOWEST
      [] T = "String" -> <<>>

is_null(T, v) ==
    CASE T = "Int64" -> v = INT64_MIN
      [] T = "Double" -> v = DBL_LOWEST
      [] T = "String" -> Len(v) = 0

(***************************************************************************)
(* The values the model draws its inputs from.                             *)
(***************************************************************************)
NameA == <<"a">>
NameB == <<"b">>
Names == {NameA, NameB}

Vals(T) ==
    CASE T = "Int64" -> {INT64_MIN, 1}
      [] T = "Double" -> {DBL_LOWEST, 3}
      [] T = "String" -> {<<>>, <<"x">>}

SeqsUpTo(S, n) == UNION {[1..k -> S] : k \in 0..n}

\* A RowVariant: the alternative held and its value.
Variants ==
    UNION {{[type |-> T, val |-> v] : v \in Vals(T)} : T \in {"Int64", "String"}}

\* Row::data, a map from column name to RowVariant.
RowMaps == UNION {[S -> Variants] : S \in SUBSET Names}

Range(s) == {s[i] : i \in DOMAIN s}

\* The iteration orders of an unordered_map with the given keys.
Orders(keys) ==
    {o \in [1..Cardinality(keys) -> keys] : Range(o) = keys}

(***************************************************************************)
(* Column<T> (core/column.h).                                              *)
(***************************************************************************)
\* Column(size_t size_reserve): reserves, holds nothing.
ColumnReserve(T) == [type |-> T, data |-> <<>>, null_count |-> 0]

AppendCountsNoNull(c, v) == [c EXCEPT !.data = Append(@, v)]

\* Column::append
append(c, v) ==
    [c EXCEPT !.data = Append(@, v),
              !.null_count = IF is_null(c.type, v) THEN @ + 1 ELSE @]

\* new_column.append(x) for every x of d from d[i] on
RECURSIVE AppendAll(_, _, _)
AppendAll(c, d, i) ==
    IF i > Len(d) THEN c ELSE AppendAll(append(c, d[i]), d, i + 1)

\* The loop of the vector constructor from d[i] on: count is null_count
RECURSIVE CountNulls(_, _, _, _)
CountNulls(T, d, i, count) ==
    IF i > Len(d) THEN count
    ELSE CountNulls(T, d, i + 1, IF is_null(T, d[i]) THEN count + 1 ELSE count)

\* Column(const std::vector<T>& d): counts the nulls while copying.
ColumnFromVector(T, d) ==
    [type |-> T, data |-> d, null_count |-> CountNulls(T, d, 1, 0)]

RemoveAt(s, i) == [k \in 1..(Len(s) - 1) |-> IF k < i THEN s[k] ELSE s[k + 1]]

\* Column::erase(index), index counted from 0.
erase(c, index) ==
    IF index >= Len(c.data)
    THEN [col |-> c, err |-> "out_of_range"]
    ELSE [col |-> [c EXCEPT
                     !.data = RemoveAt(@, index + 1),
                     !.null_count =
                        IF is_null(c.type, c.data[index + 1]) THEN @ - 1 ELSE @],
          err |-> "none"]

\* The number of sentinel-valued elements a column stores (a full rescan).
NullsStored(c) ==
    Cardinality({i \in DOMAIN c.data : is_null(c.type, c.data[i])})

(***************************************************************************)
(* DataFrame: construction and helpers.                                    *)
(***************************************************************************)
NoColumns == [n \in {} |-> 0]

\* DataFrame df{}: value-initialised, as the code itself creates its tables.
EmptyFrame ==
    [columns |-> NoColumns, column_info |-> <<>>, rows |-> 0, cols |-> 0]

Ret(t, e) == [df |-> t, err |-> e]

\* An outcome after which the process is gone or the table is outside every
\* bound: a null dereference, or a loop that appends until allocation fails.
Fatal(e) == e \in {"bad_alloc", "null dereference", "segfault"}

HasName(t, name) == \E i \in DOMAIN t.column_info : t.column_info[i] = name

\* DataFrame::validate_subset: every name must be in column_info.
validate_subset(t, subset) == \A i \in DOMAIN subset : HasName(t, subset[i])

NormalizePadsNothing(t) == t

\* DataFrame::normalize_length: pads every shorter column with its sentinel.
\* diff is a size_t: for a column longer than rows it wraps and the loop
\* appends until allocation fails (see NormalizeOverruns).
RECURSIVE Pad(_, _)
Pad(c, n) ==
    IF Len(c.data) >= n THEN c ELSE Pad(append(c, get_null(c.type)), n)

NormalizeOverruns(t) ==
    \E k \in DOMAIN t.columns : Len(t.columns[k].data) > t.rows

normalize_length(t) ==
    [t EXCEPT !.columns = [k \in DOMAIN @ |-> Pad(@[k], t.rows)]]

\* DataFrame(std::vector<std::string> cn): column_info is declared before
\* cols, so cols is read from the moved-from (empty) cn; rows is not
\* initialised at all (r is whatever the memory held).
DataFrameNames(cn, r) ==
    [columns |-> NoColumns, column_info |-> cn, rows |-> r, cols |-> 0]

(***************************************************************************)
(* 64-bit words.  A size_t (and the 8-byte image of a cell) is four 16-bit *)
(* limbs, least significant first, so that no intermediate leaves TLC's    *)
(* integers.                                                               *)
(***************************************************************************)
Limb == 2^16

WZero == <<0, 0, 0, 0>>

\* x + y modulo 2^64
WAdd(x, y) ==
    LET s1 == x[1] + y[1]
        s2 == x[2] + y[2] + (s1 \div Limb)
        s3 == x[3] + y[3] + (s2 \div Limb)
        s4 == x[4] + y[4] + (s3 \div Limb)
    IN <<s1 % Limb, s2 % Limb, s3 % Limb, s4 % Limb>>

\* x << 6 modulo 2^64
WShl6(x) ==
    <<(x[1] * 64) % Limb,
      ((x[2] * 64) % Limb) + (x[1] \div 1024),
      ((x[3] * 64) % Limb) + (x[2] \div 1024),
      ((x[4] * 64) % Limb) + (x[3] \div 1024)>>

\* x >> 2
WShr2(x) ==
    <<(x[1] \div 4) + ((x[2] % 4) * 16384),
      (x[2] \div 4) + ((x[3] % 4) * 16384),
      (x[3] \div 4) + ((x[4] % 4) * 16384),
      x[4] \div 4>>

RECURSIVE BitXor(_, _, _)
BitXor(a, b, n) ==
    IF n = 0 THEN 0
    ELSE ((a + b) % 2) + 2 * BitXor(a \div 2, b \div 2, n - 1)

\* a ^ b for four-bit a and b, tabulated once
XorNibble == [a \in 0..15 |-> [b \in 0..15 |-> BitXor(a, b, 4)]]

\* a ^ b for 16-bit limbs, nibble by nibble
LimbXor(a, b) ==
    XorNibble[a % 16][b % 16]
    + 16 * XorNibble[(a \div 16) % 16][(b \div 16) % 16]
    + 256 * XorNibble[(a \div 256) % 16][(b \div 256) % 16]
    + 4096 * XorNibble[a \div 4096][b \div 4096]

\* x ^ y
WXor(x, y) ==
    <<LimbXor(x[1], y[1]), LimbXor(x[2], y[2]),
      LimbXor(x[3], y[3]), LimbXor(x[4], y[4])>>

\* The object representation of an int64_t (two's complement).
Int64Bits(v) ==
    IF v = INT64_MIN THEN <<0, 0, 0, 32768>>
    ELSE IF v >= 0 THEN <<v % Limb, v \div Limb, 0, 0>>
    ELSE LET m == (-v) - 1
         IN <<65535 - (m % Limb), 65535 - (m \div Limb), 65535, 65535>>

\* The int64_t with the given object representation, for the words the
\* model's values produce.
BitsInt64(w) ==
    IF w = <<0, 0, 0, 32768>> THEN INT64_MIN
    ELSE IF w[4] < 32768 THEN w[1] + Limb * w[2]
    ELSE -((65535 - w[1]) + Limb * (65535 - w[2])) - 1

RECURSIVE Log2(_)
Log2(n) == IF n <= 1 THEN 0 ELSE 1 + Log2(n \div 2)

RECURSIVE Pow2(_)
Pow2(n) == IF n = 0 THEN 1 ELSE 2 * Pow2(n - 1)

\* The object representation of a double (IEEE 754 binary64) holding v/2.
DoubleBits(v) ==
    IF v = DBL_LOWEST THEN <<65535, 65535, 65535, 65519>>
    ELSE IF v = 0 THEN WZero
    ELSE LET n == IF v < 0 THEN -v ELSE v
             p == Log2(n)
             sign == IF v < 0 THEN 32768 ELSE 0
             expo == 1022 + p
             shift == 52 - p
             m == (n - Pow2(p)) * Pow2(shift % 16)
             q == shift \div 16
         IN <<0, 0,
              IF q = 2 THEN m % Limb ELSE 0,
              sign + expo * 16 + (IF q = 2 THEN m \div Limb ELSE m)>>

\* The double with the given object representation, as a count of halves.
BitsDouble(w) ==
    IF w = <<65535, 65535, 65535, 65519>> THEN DBL_LOWEST
    ELSE IF w = WZero THEN 0
    ELSE LET neg == w[4] >= 32768
             expo == (w[4] % 32768) \div 16
             p == expo - 1022
             shift == 52 - p
             mant == IF shift >= 48
                     THEN (w[4] % 16) \div Pow2(shift - 48)
                     ELSE ((w[4] % 16) * Limb + w[3]) \div Pow2(shift - 32)
             n == Pow2(p) + mant
         IN IF neg THEN -n ELSE n

(***************************************************************************)
(* Row hashing (dataframe.cpp, private helpers).                           *)
(***************************************************************************)
\* 0x9e3779b9
HashMagic == <<31161, 40503, 0, 0>>

\* DataFrame::combine_hash
combine_hash(row_hash, value_hash) ==
    WXor(row_hash,
         WAdd(WAdd(WAdd(value_hash, HashMagic), WShl6(row_hash)),
              WShr2(row_hash)))

CharCode ==
    [ch \in {"a", "b", "c", "x", "y", "z"} |->
        CASE ch = "a" -> 97 [] ch = "b" -> 98 [] ch = "c" -> 99
          [] ch = "x" -> 120 [] ch = "y" -> 121 [] ch = "z" -> 122]

RECURSIVE StringHash(_, _)
StringHash(s, h) ==
    IF Len(s) = 0 THEN h
    ELSE StringHash(Tail(s), WAdd(WShl6(h), <<CharCode[Head(s)], 0, 0, 0>>))

\* std::hash<T>: the identity on an int64_t; for a double and a string the
\* library's byte hash, which the model replaces by a function that is
\* injective on the values it uses (and 0 for 0.0, as the library has it).
std_hash(T, v) ==
    CASE T = "Int64" -> Int64Bits(v)
      [] T = "Double" -> DoubleBits(v)
      [] T = "String" -> StringHash(v, <<Len(v), 0, 0, 1>>)

(***************************************************************************)
(* DataFrame: column and row operations.                                   *)
(***************************************************************************)
AddColumnKeepsRows(t, name, T, data) ==
    Ret([t EXCEPT !.column_info = Append(@, name),
                  !.columns = (name :> ColumnFromVector(T, data)) @@ @,
                  !.cols = @ + 1], "none")

\* DataFrame::add_column(name, data): the new column is stored, then the
\* table is padded to a common length.  When an existing column is longer
\* than the new row count the padding loop does not end (bad_alloc).
add_column(t, name, T, data) ==
    IF HasName(t, name)
    THEN Ret(t, "runtime_error")
    ELSE LET t1 == [t EXCEPT !.column_info = Append(@, name),
                             !.columns = (name :> ColumnFromVector(T, data)) @@ @,
                             !.cols = @ + 1]
             t2 == IF t1.rows < Len(data)
                   THEN [t1 EXCEPT !.rows = Len(data)] ELSE t1
         IN IF t1.rows = Len(data) THEN Ret(t1, "none")
            ELSE IF NormalizeOverruns(t2) THEN Ret(t2, "bad_alloc")
            ELSE Ret(normalize_length(t2), "none")

\* std::erase_if(column_info, == column_name)
EraseName(info, name) == SelectSeq(info, LAMBDA n : n # name)

DropColumnUnchecked(t, name) ==
    Ret([t EXCEPT
            !.columns = [k \in (DOMAIN @) \ {name} |-> @[k]],
            !.column_info = EraseName(@, name),
            !.cols = @ - 1], "none")

\* DataFrame::drop_column
drop_column(t, name) ==
    IF name \notin DOMAIN t.columns
    THEN Ret(t, "invalid_argument")
    ELSE Ret([t EXCEPT
                !.columns = [k \in (DOMAIN @) \ {name} |-> @[k]],
                !.column_info = EraseName(@, name),
                !.cols = @ - 1],
             "none")

\* The append loop of add_row over column_info[i..]: it stops at the first
\* column that is missing from the map or whose type the value does not
\* have, keeping the appends already made.
RECURSIVE add_row_loop(_, _, _, _)
add_row_loop(columns, info, i, data) ==
    IF i > Len(info) THEN [columns |-> columns, err |-> "none"]
    ELSE LET name == info[i] IN
         IF name \notin DOMAIN columns
         THEN [columns |-> columns, err |-> "out_of_range"]
         ELSE LET col == columns[name] IN
              IF name \notin DOMAIN data
              THEN add_row_loop(
                     [columns EXCEPT ![name] = append(col, get_null(col.type))],
                     info, i + 1, data)
              ELSE IF data[name].type # col.type
              THEN [columns |-> columns, err |-> "invalid_argument: type"]
              ELSE add_row_loop(
                     [columns EXCEPT ![name] = append(col, data[name].val)],
                     info, i + 1, data)

\* DataFrame::add_row(data)
add_row(t, data) ==
    IF \E n \in DOMAIN data : n \notin DOMAIN t.columns
    THEN Ret(t, "invalid_argument: name")
    ELSE LET r == add_row_loop(t.columns, t.column_info, 1, data) IN
         IF r.err = "none"
         THEN Ret([t EXCEPT !.columns = r.columns, !.rows = @ + 1], "none")
         ELSE Ret([t EXCEPT !.columns = r.columns], r.err)

\* The assignment loop of update over the row's entries in the order the
\* unordered_map yields them; count is the number of cells written.
RECURSIVE update_loop(_, _, _, _, _, _)
update_loop(columns, index, row, order, i, count) ==
    IF i > Len(order) THEN [columns |-> columns, err |-> "none", count |-> count]
    ELSE LET name == order[i] IN
         IF name \notin DOMAIN columns
         THEN [columns |-> columns, err |-> "out_of_range", count |-> count]
         ELSE LET col == columns[name] IN
              IF row[name].type # col.type
              THEN [columns |-> columns, err |-> "bad_variant_access",
                    count |-> count]
              ELSE IF index >= Len(col.data)
              THEN [columns |-> columns, err |-> "out_of_range", count |-> count]
              ELSE update_loop(
                     [columns EXCEPT ![name].data[index + 1] = row[name].val],
                     index, row, order, i + 1, count + 1)

\* DataFrame::update(index, row); order is the iteration order of row.
update(t, index, row, order) ==
    IF index >= t.rows THEN [df |-> t, err |-> "out_of_range: index", count |-> 0]
    ELSE IF \E n \in DOMAIN row : ~HasName(t, n)
    THEN [df |-> t, err |-> "invalid_argument", count |-> 0]
    ELSE LET r == update_loop(t.columns, index, row, order, 1, 0)
         IN [df |-> [t EXCEPT !.columns = r.columns], err |-> r.err,
             count |-> r.count]

\* The erase loop of drop_row over column_info[i..].
RECURSIVE drop_row_loop(_, _, _, _)
drop_row_loop(columns, info, i, index) ==
    IF i > Len(info) THEN [columns |-> columns, err |-> "none"]
    ELSE LET name == info[i] IN
         IF name \notin DOMAIN columns
         THEN [columns |-> columns, err |-> "out_of_range"]
         ELSE LET e == erase(columns[name], index) IN
              IF e.err # "none"
              THEN [columns |-> columns, err |-> "out_of_range"]
              ELSE drop_row_loop([columns EXCEPT ![name] = e.col],
                                 info, i + 1, index)

DropRowCountsOnly(t, index) ==
    IF index >= t.rows THEN Ret(t, "out_of_range: index")
    ELSE Ret([t EXCEPT !.rows = @ - 1], "none")

\* DataFrame::drop_row
drop_row(t, index) ==
    IF index >= t.rows THEN Ret(t, "out_of_range: index")
    ELSE LET r == drop_row_loop(t.columns, t.column_info, 1, index) IN
         IF r.err = "none"
         THEN Ret([t EXCEPT !.columns = r.columns, !.rows = @ - 1], "none")
         ELSE Ret([t EXCEPT !.columns = r.columns], r.err)

(***************************************************************************)
(* DataFrame: cleaning and sorting.                                        *)
(***************************************************************************)
\* What a library leaves in a std::string that is move-assigned to itself:
\* libstdc++ empties it, others keep it.
SelfMoves == {"keeps", "clears"}

\* The shifter of compact_rows on one column, from element i (counted from
\* 0) on; out is what has been written so far, write_position = Len(out).
\* remove has rows elements: reading it at i >= rows is out of bounds and
\* yields oob.  A kept element that is already in place is move-assigned to
\* itself.  resize(write_position) leaves null_count as it was.
RECURSIVE shifter(_, _, _, _, _, _, _)
shifter(c, rows, removal, oob, selfmove, i, out) ==
    IF i >= Len(c.data) THEN [c EXCEPT !.data = out]
    ELSE LET removed == IF i < rows THEN i \in removal ELSE oob
             v == c.data[i + 1]
             moved == IF Len(out) = i /\ c.type = "String"
                         /\ selfmove = "clears"
                      THEN <<>> ELSE v
         IN shifter(c, rows, removal, oob, selfmove, i + 1,
                    IF removed THEN out ELSE Append(out, moved))

\* DataFrame::compact_rows(removal_indices)
compact_rows(t, removal, oob, selfmove) ==
    [t EXCEPT
       !.columns = [k \in DOMAIN @ |->
                      shifter(@[k], t.rows, removal, oob, selfmove, 0, <<>>)],
       !.rows = @ - Cardinality(removal)]

\* The columns a cleaning call looks at: the subset, or all of column_info.
TargetColumns(t, subset) == IF Len(subset) = 0 THEN t.column_info ELSE subset

\* A read columns.at(name)[i] throws when the name has no column or the
\* column has no element i.
Unreadable(t, name, i) ==
    \/ name \notin DOMAIN t.columns
    \/ i >= Len(t.columns[name].data)

\* size_t count > int threshold: the threshold is converted to size_t, so a
\* negative one is larger than every count.
CountExceeds(count, threshold) == threshold >= 0 /\ count > threshold

\* The nulls of row i over the target columns (a name listed twice counts
\* twice).
RowNullCount(t, target, i) ==
    Cardinality({k \in DOMAIN target :
        is_null(t.columns[target[k]].type, t.columns[target[k]].data[i + 1])})

\* DataFrame::dropna(subset, threshold)
dropna(t, subset, threshold, oob, selfmove) ==
    IF ~validate_subset(t, subset) THEN Ret(t, "invalid_argument")
    ELSE LET target == TargetColumns(t, subset) IN
         IF \E i \in 0..(t.rows - 1), k \in DOMAIN target :
                Unreadable(t, target[k], i)
         THEN Ret(t, "out_of_range")
         ELSE LET removal ==
                    {i \in 0..(t.rows - 1) :
                        CountExceeds(RowNullCount(t, target, i), threshold)}
              IN Ret(compact_rows(t, removal, oob, selfmove), "none")

\* DataFrame::compute_row_hash over on[k..], starting from row_hash
RECURSIVE compute_row_hash(_, _, _, _, _)
compute_row_hash(t, index, on, k, row_hash) ==
    IF k > Len(on) THEN row_hash
    ELSE LET col == t.columns[on[k]]
         IN compute_row_hash(t, index, on, k + 1,
               combine_hash(row_hash, std_hash(col.type, col.data[index + 1])))

\* The first read of the hashing loop that fails, rows first, then target
\* columns: get_column returns nullptr for a name without a column and the
\* pointer is dereferenced; operator[] throws past the end of a column.
FirstFault(t, target) ==
    LET faults == {p \in (0..(t.rows - 1)) \X (DOMAIN target) :
                      Unreadable(t, target[p[2]], p[1])}
        first == CHOOSE p \in faults :
                    \A q \in faults :
                       p[1] < q[1] \/ (p[1] = q[1] /\ p[2] <= q[2])
    IN IF faults = {} THEN "none"
       ELSE IF target[first[2]] \notin DOMAIN t.columns
       THEN "null dereference" ELSE "out_of_range"

\* DataFrame::drop_duplicates(subset)
drop_duplicates(t, subset, oob, selfmove) ==
    IF ~validate_subset(t, subset) THEN Ret(t, "invalid_argument")
    ELSE LET target == TargetColumns(t, subset) IN
         IF FirstFault(t, target) # "none"
         THEN Ret(t, FirstFault(t, target))
         ELSE LET hash == [i \in 0..(t.rows - 1) |->
                             compute_row_hash(t, i, target, 1, WZero)]
                  removal == {i \in 0..(t.rows - 1) :
                                \E j \in 0..(i - 1) : hash[j] = hash[i]}
              IN Ret(compact_rows(t, removal, oob, selfmove), "none")

RECURSIVE LexLess(_, _)
LexLess(s, u) ==
    IF Len(u) = 0 THEN FALSE
    ELSE IF Len(s) = 0 THEN TRUE
    ELSE IF CharCode[Head(s)] # CharCode[Head(u)]
    THEN CharCode[Head(s)] < CharCode[Head(u)]
    ELSE LexLess(Tail(s), Tail(u))

\* operator< of the element type
Less(T, x, y) == IF T = "String" THEN LexLess(x, y) ELSE x < y

\* The comparator sort_by hands to std::ranges::sort
SortComp(T, ascending, x, y) ==
    IF ascending THEN Less(T, x, y) ELSE Less(T, y, x)

UnsortedOrders(c, rows, ascending) == {[k \in 1..rows |-> k - 1]}

\* The index orders std::ranges::sort may produce: any permutation of
\* 0..rows-1 that is sorted under the comparator (the sort is not stable).
SortedOrders(c, rows, ascending) ==
    {p \in [1..rows -> 0..(rows - 1)] :
        /\ \A i, j \in 1..rows : i # j => p[i] # p[j]
        /\ \A i, j \in 1..rows :
              i < j => ~SortComp(c.type, ascending,
                                 c.data[p[j] + 1], c.data[p[i] + 1])}

\* The rebuilding loop of sort_by over the map in iteration order: each
\* column is replaced by a fresh one filled through append; a column with
\* fewer than rows elements throws and leaves the earlier ones replaced.
RECURSIVE sort_rebuild(_, _, _, _)
sort_rebuild(columns, order, i, indices) ==
    IF i > Len(order) THEN [columns |-> columns, err |-> "none"]
    ELSE LET old == columns[order[i]] IN
         IF Len(old.data) < Len(indices)
         THEN [columns |-> columns, err |-> "out_of_range"]
         ELSE sort_rebuild(
                [columns EXCEPT ![order[i]] =
                    AppendAll(ColumnReserve(old.type),
                        [k \in DOMAIN indices |-> old.data[indices[k] + 1]], 1)],
                order, i + 1, indices)

\* DataFrame::sort_by(column_name, ascending): indices is the outcome of
\* the sort, order the iteration order of the column map.
sort_by(t, name, ascending, indices, order) ==
    IF name \notin DOMAIN t.columns THEN Ret(t, "invalid_argument")
    ELSE IF t.rows >= 2 /\ Len(t.columns[name].data) < t.rows
    THEN Ret(t, "out_of_range")
    ELSE LET r == sort_rebuild(t.columns, order, 1, indices)
         IN Ret([t EXCEPT !.columns = r.columns], r.err)

\* The outcomes of the sort inside sort_by; when the comparator cannot read
\* the target (or there is no target) the indices stay as they were built.
SortOutcomes(t, name, ascending) ==
    IF name \in DOMAIN t.columns /\ Len(t.columns[name].data) >= t.rows
    THEN SortedOrders(t.columns[name], t.rows, ascending)
    ELSE {[k \in 1..t.rows |-> k - 1]}

\* DataFrame::operator==: the row counts, the names in order and the cells
\* of the columns under each name of t are the same
operator_eq(t, u) ==
    /\ t.rows = u.rows
    /\ Len(t.column_info) = Len(u.column_info)
    /\ \A i \in DOMAIN t.column_info :
          /\ t.column_info[i] = u.column_info[i]
          /\ t.column_info[i] \in DOMAIN t.columns \cap DOMAIN u.columns
          /\ t.columns[t.column_info[i]].type = u.columns[t.column_info[i]].type
          /\ t.columns[t.column_info[i]].data = u.columns[t.column_info[i]].data

SelectsNothing(t, subset, k, out) == Ret(out, "none")

\* The loop of select over subset[k..]: each column is copied into a vector
\* and added to the new table df
RECURSIVE select_loop(_, _, _, _)
select_loop(t, subset, k, out) ==
    IF k > Len(subset) THEN Ret(out, "none")
    ELSE IF subset[k] \notin DOMAIN t.columns THEN Ret(out, "out_of_range")
    ELSE LET col == t.columns[subset[k]]
             r == add_column(out, subset[k], col.type, col.data)
         IN IF r.err # "none" THEN r
            ELSE select_loop(t, subset, k + 1, r.df)

\* DataFrame::select(subset) const: df is the table returned
select(t, subset) ==
    IF Len(subset) = 0 THEN Ret(EmptyFrame, "invalid_argument")
    ELSE IF ~validate_subset(t, subset) THEN Ret(EmptyFrame, "invalid_argument")
    ELSE select_loop(t, subset, 1, EmptyFrame)

\* The end slice works with: 0 and anything past the last row mean rows
SliceEnd(t, end) == IF end = 0 \/ end > t.rows THEN t.rows ELSE end

\* What the copy [begin + start, begin + end) can read past the end of a
\* column with fewer than end elements: nothing (<<>>, the read faults) or
\* some value of the column's type
PastReads(t, end) ==
    IF \E k \in DOMAIN t.columns : Len(t.columns[k].data) < SliceEnd(t, end)
    THEN {<<>>} \cup {<<p>> : p \in [Types -> UNION {Vals(T) : T \in Types}]}
    ELSE {<<>>}

SliceFailsAlways(t, start, end, past) == Ret(EmptyFrame, "out_of_range")

\* DataFrame::slice(start, end) const: df is the table returned
slice(t, start, end, past) ==
    LET e == SliceEnd(t, end) IN
    IF start >= e THEN Ret(EmptyFrame, "out_of_range")
    ELSE IF \E i \in DOMAIN t.column_info :
               t.column_info[i] \notin DOMAIN t.columns
    THEN Ret(EmptyFrame, "out_of_range")
    ELSE IF Len(past) = 0 /\ \E i \in DOMAIN t.column_info :
               Len(t.columns[t.column_info[i]].data) < e
    THEN Ret(EmptyFrame, "segfault")
    ELSE LET copy(c) ==
                 [k \in 1..(e - start) |->
                     IF start + k <= Len(c.data) THEN c.data[start + k]
                     ELSE past[1][c.type]]
         IN Ret([columns |->
                    [n \in Range(t.column_info) |->
                        ColumnFromVector(t.columns[n].type, copy(t.columns[n]))],
                 column_info |-> t.column_info,
                 rows |-> e - start,
                 cols |-> Len(t.column_info)], "none")

(***************************************************************************)
(* The table machine: one DataFrame object and the calls made on it.       *)
(***************************************************************************)
Called(op, e) == [op |-> op, err |-> e]

\* The states the model keeps: no column longer than MaxRows and no
\* null_count further than MaxSkew from the number of nulls stored.
InBounds(t) ==
    /\ t.rows <= MaxRows
    /\ \A k \in DOMAIN t.columns :
          /\ Len(t.columns[k].data) <= MaxRows
          /\ t.columns[k].null_count - NullsStored(t.columns[k])
                \in (-MaxSkew)..MaxSkew

\* Whether compact_rows would read remove[] out of bounds on t.
OobReads(t) == IF NormalizeOverruns(t) THEN BOOLEAN ELSE {FALSE}

\* The iteration orders of row that update can tell apart: when every entry
\* of the row is written the order makes no difference and one is enough.
UpdateOrders(t, index, row) ==
    IF \A n \in DOMAIN row :
          /\ n \in DOMAIN t.columns
          /\ row[n].type = t.columns[n].type
          /\ index < Len(t.columns[n].data)
    THEN {CHOOSE o \in Orders(DOMAIN row) : TRUE}
    ELSE Orders(DOMAIN row)

\* The self-move outcomes compact_rows can tell apart on t: without a
\* non-empty string cell there is nothing to clear.
SelfMovesOn(t) ==
    IF \E k \in DOMAIN t.columns :
          /\ t.columns[k].type = "String"
          /\ \E i \in DOMAIN t.columns[k].data : Len(t.columns[k].data[i]) > 0
    THEN SelfMoves ELSE {"keeps"}

\* The column types and the lists of names the table machine passes.
TableTypes == {"Int64", "String"}
Subsets == {<<>>, <<NameA>>, <<NameB>>, <<NameA, NameB>>, <<NameA, NameA>>}

\* A call that ended with outcome r; a fatal outcome has no next state.
Step(r, op) ==
    /\ ~Fatal(r.err)
    /\ InBounds(r.df)
    /\ df' = r.df
    /\ last' = Called(op, r.err)
    /\ UNCHANGED <<cobj, io, jn>>

Init ==
    /\ df = EmptyFrame
    /\ last = Called("DataFrame", "none")
    /\ cobj = ColumnReserve("Int64")
    /\ io = <<>>
    /\ jn = <<>>

AddColumn ==
    \E name \in Names, T \in TableTypes :
        \E data \in SeqsUpTo(Vals(T), MaxRows) :
            \E r \in {add_column(df, name, T, data)} : Step(r, "add_column")

DropColumn ==
    \E name \in Names :
        \E r \in {drop_column(df, name)} : Step(r, "drop_column")

AddRow ==
    \E data \in RowMaps :
        \E r \in {add_row(df, data)} : Step(r, "add_row")

Update ==
    \E index \in 0..df.rows, row \in RowMaps :
        \E order \in UpdateOrders(df, index, row) :
            \E r \in {update(df, index, row, order)} : Step(r, "update")

DropRow ==
    \E index \in 0..df.rows :
        \E r \in {drop_row(df, index)} : Step(r, "drop_row")

Dropna ==
    \E subset \in Subsets, threshold \in {-1, 0, 1} :
        \E oob \in OobReads(df), selfmove \in SelfMovesOn(df) :
            \E r \in {dropna(df, subset, threshold, oob, selfmove)} :
                Step(r, "dropna")

DropDuplicates ==
    \E subset \in Subsets :
        \E oob \in OobReads(df), selfmove \in SelfMovesOn(df) :
            \E r \in {drop_duplicates(df, subset, oob, selfmove)} :
                Step(r, "drop_duplicates")

SortBy ==
    \E name \in Names, ascending \in BOOLEAN :
        \E indices \in SortOutcomes(df, name, ascending) :
            \E order \in Orders(DOMAIN df.columns) :
                \E r \in {sort_by(df, name, ascending, indices, order)} :
                    Step(r, "sort_by")

Next ==
    \/ AddColumn
    \/ DropColumn
    \/ AddRow
    \/ Update
    \/ DropRow
    \/ Dropna
    \/ DropDuplicates
    \/ SortBy

\* Every call on a table that started as DataFrame{}.
Spec == Init /\ [][Next]_vars

\* Only the calls that return.
Returns == last'.err = "none"

NextOk ==
    \/ AddColumn /\ Returns
    \/ DropColumn /\ Returns
    \/ AddRow /\ Returns
    \/ Update /\ Returns
    \/ DropRow /\ Returns
    \/ Dropna /\ Returns
    \/ DropDuplicates /\ Returns
    \/ SortBy /\ Returns

SpecOk == Init /\ [][NextOk]_vars

\* Every call on a table built by DataFrame(names).
InitNames ==
    /\ \E cn \in SeqsUpTo(Names, 2), r \in 0..MaxRows :
          df = DataFrameNames(cn, r)
    /\ last = Called("DataFrame", "none")
    /\ cobj = ColumnReserve("Int64")
    /\ io = <<>>
    /\ jn = <<>>

SpecNames == InitNames /\ [][Next]_vars

(***************************************************************************)
(* The column machine: one Column<T> object, built by the default or the   *)
(* vector constructor, and the append and erase calls made on it.          *)
(***************************************************************************)
MaxLen == 3         \* the column machine builds columns of at most this length

InitColumn ==
    /\ \E T \in Types : \E d \in SeqsUpTo(Vals(T), MaxLen) :
          cobj = ColumnFromVector(T, d)
    /\ last = Called("Column", "none")
    /\ df = EmptyFrame
    /\ io = <<>>
    /\ jn = <<>>

ColumnAppend ==
    /\ Len(cobj.data) < MaxLen
    /\ \E v \in Vals(cobj.type) : cobj' = append(cobj, v)
    /\ last' = Called("append", "none")
    /\ UNCHANGED <<df, io, jn>>

ColumnErase ==
    /\ \E index \in 0..MaxLen : \E r \in {erase(cobj, index)} :
          /\ cobj' = r.col
          /\ last' = Called("erase", r.err)
    /\ UNCHANGED <<df, io, jn>>

NextColumn == ColumnAppend \/ ColumnErase

SpecColumn == InitColumn /\ [][NextColumn]_vars

\* What one call of the column machine does to the count: append adds one
\* iff the value is the sentinel, erase takes one off iff the element it
\* removed was the sentinel, and an erase that throws changes nothing.
ColumnCallCounts ==
    /\ (last'.op = "append") =>
          (cobj'.null_count - cobj.null_count =
             IF is_null(cobj.type, cobj'.data[Len(cobj'.data)]) THEN 1 ELSE 0)
    /\ (last'.op = "erase" /\ last'.err = "none") =>
          (/\ Len(cobj'.data) = Len(cobj.data) - 1
           /\ cobj.null_count - cobj'.null_count =
                 NullsStored(cobj) - NullsStored(cobj'))
    /\ (last'.op = "erase" /\ last'.err # "none") => (cobj' = cobj)

\* C4: for a Column of any storage type built by the vector or the default
\* constructor and changed by append and erase calls, get_null_count() is
\* the number of sentinel-valued elements stored: append adds one iff the
\* value is the sentinel, erase takes one off iff the removed element was
\* the sentinel, and a failed erase (index >= length) changes nothing.
C4_NullCountTracksAppendErase ==
    /\ [](cobj.null_count = NullsStored(cobj))
    /\ [][ColumnCallCounts]_vars

\* C4 witness: an erase has just removed a sentinel from a column that still
\* holds both a sentinel and a value.
C4_ErasedASentinel ==
    /\ last.op = "erase"
    /\ last.err = "none"
    /\ Len(cobj.data) = 2
    /\ cobj.null_count = 1

(***************************************************************************)
(* Properties of the table machine.                                        *)
(***************************************************************************)
ColumnKeys == DOMAIN df.columns

\* C1: a call to add_row that fails on a type mismatch leaves every column
\* and nrows() exactly as they were before the call.
C1_FailedAddRowChangesNothing ==
    [][(last'.op = "add_row" /\ last'.err = "invalid_argument: type")
          => df' = df]_vars

\* C2: in every state reached from an empty table by calls of add_column,
\* add_row, drop_row, drop_column, dropna, drop_duplicates and sort_by that
\* return without error, every column's length equals nrows().
C2_ColumnsHaveRowsElements ==
    \A k \in ColumnKeys : Len(df.columns[k].data) = df.rows

\* C2 witness: a two-column table that drop_duplicates has just compacted
\* from two rows to one.
C2_CompactedTwoColumns ==
    /\ last.op = "drop_duplicates"
    /\ df.rows = 1
    /\ ColumnKeys = Names
    /\ \A k \in ColumnKeys : df.columns[k].null_count = 0

\* C3: across add_column, add_row, update, drop_row, dropna, drop_duplicates
\* and sort_by, each column's null_count equals the number of sentinel-valued
\* elements it holds.
C3_NullCountIsNullsStored ==
    \A k \in ColumnKeys : df.columns[k].null_count = NullsStored(df.columns[k])


NoDuplicates(s) ==
    \A i, j \in DOMAIN s : i # j => s[i] # s[j]

\* C5: a table produced by a public constructor, add_column or drop_column
\* has no name twice in its ordered name list, and the set of names in the
\* list is the key set of the name-to-column mapping.
C5_NamesAreTheKeys ==
    /\ NoDuplicates(df.column_info)
    /\ Range(df.column_info) = ColumnKeys

\* C6: a call update(index, row) that fails (index out of range, unknown
\* column name, or a type mismatch on any entry of the row) modifies no
\* cell of the table.
C6_FailedUpdateChangesNothing ==
    [][(last'.op = "update" /\ last'.err # "none") => df' = df]_vars

(***************************************************************************)
(* Bytes.  A byte is an integer in 0..255; memcpy of an n-byte object is   *)
(* its little-endian image.                                                *)
(***************************************************************************)
\* The k-byte image of the unsigned integer n
RECURSIVE LE(_, _)
LE(n, k) == IF k = 0 THEN <<>> ELSE <<n % 256>> \o LE(n \div 256, k - 1)

\* The unsigned integer with the given image
RECURSIVE FromLE(_)
FromLE(b) == IF Len(b) = 0 THEN 0 ELSE Head(b) + 256 * FromLE(Tail(b))

\* bytes[off .. off + n), off counted from 0
Sub(bytes, off, n) == SubSeq(bytes, off + 1, off + n)

\* The 8-byte image of a 64-bit word and the word of an 8-byte image
WordBytes(w) == LE(w[1], 2) \o LE(w[2], 2) \o LE(w[3], 2) \o LE(w[4], 2)
BytesWord(b) ==
    <<FromLE(Sub(b, 0, 2)), FromLE(Sub(b, 2, 2)),
      FromLE(Sub(b, 4, 2)), FromLE(Sub(b, 6, 2))>>

\* The object representation of a numeric cell and the cell it represents
CellBits(T, v) == IF T = "Int64" THEN Int64Bits(v) ELSE DoubleBits(v)
BitsCell(T, w) == IF T = "Int64" THEN BitsInt64(w) ELSE BitsDouble(w)

\* The bytes of a string and the string of some bytes
StringBytes(str) == [i \in DOMAIN str |-> CharCode[str[i]]]
BytesString(b) ==
    [i \in DOMAIN b |-> CHOOSE ch \in DOMAIN CharCode : CharCode[ch] = b[i]]

\* enum class ColumnType { Int64, Double, String }
TypeTag(T) == CASE T = "Int64" -> 0 [] T = "Double" -> 1 [] T = "String" -> 2
TagType(n) ==
    CASE n = 0 -> "Int64" [] n = 1 -> "Double" [] n = 2 -> "String"
      [] OTHER -> "unknown"

(***************************************************************************)
(* Column<T>::to_bytes and Column<T>::from_bytes (core/column.h).          *)
(***************************************************************************)
ColumnToBytesZeroes(c, i) ==
    IF c.type = "String"
    THEN [k \in 1..(4 * Len(c.data)) |-> 0]
    ELSE [k \in 1..(8 * Len(c.data)) |-> 0]

\* to_bytes of data[i..]: a numeric cell is its 8 bytes, a string its
\* uint32_t length and then its characters.
RECURSIVE column_to_bytes(_, _)
column_to_bytes(c, i) ==
    IF i > Len(c.data) THEN <<>>
    ELSE (IF c.type = "String"
          THEN LE(Len(c.data[i]), 4) \o StringBytes(c.data[i])
          ELSE WordBytes(CellBits(c.type, c.data[i])))
         \o column_to_bytes(c, i + 1)

\* The string loop of from_bytes from offset on; d is what was read so far.
RECURSIVE read_strings(_, _, _)
read_strings(bytes, offset, d) ==
    IF offset >= Len(bytes) THEN [data |-> d, err |-> "none"]
    ELSE IF offset + 4 > Len(bytes)
    THEN [data |-> d, err |-> "runtime_error: string length"]
    ELSE LET length == FromLE(Sub(bytes, offset, 4)) IN
         IF offset + 4 + length > Len(bytes)
         THEN [data |-> d, err |-> "runtime_error: string data"]
         ELSE read_strings(bytes, offset + 4 + length,
                 Append(d, BytesString(Sub(bytes, offset + 4, length))))

ColumnFromBytesAccepts(T, bytes) ==
    [col |-> ColumnFromVector(T, <<>>), err |-> "none"]

\* Column<T>::from_bytes
column_from_bytes(T, bytes) ==
    IF Len(bytes) = 0
    THEN [col |-> ColumnReserve(T), err |-> "runtime_error: empty bytes"]
    ELSE IF T = "String"
    THEN LET r == read_strings(bytes, 0, <<>>) IN
         IF r.err # "none" THEN [col |-> ColumnReserve(T), err |-> r.err]
         ELSE [col |-> ColumnFromVector(T, r.data), err |-> "none"]
    ELSE IF Len(bytes) % 8 # 0
    THEN [col |-> ColumnReserve(T), err |-> "runtime_error: size"]
    ELSE [col |-> ColumnFromVector(T,
                     [i \in 1..(Len(bytes) \div 8) |->
                        BitsCell(T, BytesWord(Sub(bytes, 8 * (i - 1), 8)))]),
          err |-> "none"]

(***************************************************************************)
(* to_bytes and from_bytes of a table (io/binary.cpp).                     *)
(***************************************************************************)
\* The name block of to_bytes from column_info[i] on
RECURSIVE names_to_bytes(_, _)
names_to_bytes(info, i) ==
    IF i > Len(info) THEN <<>>
    ELSE LE(Len(info[i]), 4) \o StringBytes(info[i]) \o names_to_bytes(info, i + 1)

\* The column block of to_bytes from column_info[i] on: the type tag
\* (sizeof(ColumnType) = 4) and the column's bytes.
RECURSIVE columns_to_bytes(_, _)
columns_to_bytes(t, i) ==
    IF i > Len(t.column_info) THEN <<>>
    ELSE LET c == t.columns[t.column_info[i]] IN
         LE(TypeTag(c.type), 4) \o column_to_bytes(c, 1)
            \o columns_to_bytes(t, i + 1)

\* to_bytes(df), for a table whose names all have a column
to_bytes(t) ==
    LE(t.rows, 8) \o LE(t.cols, 8) \o names_to_bytes(t.column_info, 1)
       \o columns_to_bytes(t, 1)

\* The name loop of from_bytes: nc names from offset on
RECURSIVE read_names(_, _, _, _)
read_names(bytes, offset, nc, names) ==
    IF Len(names) >= nc THEN [names |-> names, offset |-> offset, err |-> "none"]
    ELSE IF offset + 4 > Len(bytes)
    THEN [names |-> names, offset |-> offset, err |-> "runtime_error: name length"]
    ELSE LET length == FromLE(Sub(bytes, offset, 4)) IN
         IF offset + 4 + length > Len(bytes)
         THEN [names |-> names, offset |-> offset, err |-> "runtime_error: name"]
         ELSE read_names(bytes, offset + 4 + length, nc,
                 Append(names, BytesString(Sub(bytes, offset + 4, length))))

\* The scan that sizes a string column: nr strings from offset on; the
\* result is the offset after them.
RECURSIVE scan_strings(_, _, _)
scan_strings(bytes, offset, nr) ==
    IF nr = 0 THEN [offset |-> offset, err |-> "none"]
    ELSE IF offset + 4 > Len(bytes)
    THEN [offset |-> offset, err |-> "runtime_error: string length"]
    ELSE LET length == FromLE(Sub(bytes, offset, 4)) IN
         IF offset + 4 + length > Len(bytes)
         THEN [offset |-> offset, err |-> "runtime_error: string data"]
         ELSE scan_strings(bytes, offset + 4 + length, nr - 1)

\* The column loop of from_bytes from column i on
RECURSIVE read_columns(_, _, _, _, _, _)
read_columns(bytes, offset, nr, names, i, map) ==
    IF i > Len(names) THEN [map |-> map, err |-> "none"]
    ELSE IF offset + 4 > Len(bytes)
    THEN [map |-> map, err |-> "runtime_error: column type"]
    ELSE LET T == TagType(FromLE(Sub(bytes, offset, 4)))
             start == offset + 4
             scan == IF T = "String" THEN scan_strings(bytes, start, nr)
                     ELSE [offset |-> start + nr * 8, err |-> "none"]
         IN IF T = "unknown" THEN [map |-> map, err |-> "runtime_error: type"]
            ELSE IF scan.err # "none" THEN [map |-> map, err |-> scan.err]
            ELSE IF scan.offset > Len(bytes)
            THEN [map |-> map, err |-> "runtime_error: column data"]
            ELSE LET c == column_from_bytes(T,
                             Sub(bytes, start, scan.offset - start))
                 IN IF c.err # "none" THEN [map |-> map, err |-> c.err]
                    ELSE read_columns(bytes, scan.offset, nr, names, i + 1,
                                      (names[i] :> c.col) @@ map)

\* DataFrame(r, c, cn, d) of dataframe.cpp: stores its arguments and pads.
DataFrameParts(r, c, cn, d) ==
    LET t == [columns |-> d, column_info |-> cn, rows |-> r, cols |-> c]
    IN IF NormalizeOverruns(t) THEN Ret(t, "bad_alloc")
       ELSE Ret(normalize_length(t), "none")

\* How the call DataFrame(nr, column_names.size(), std::move(column_names),
\* ...) may read the size: before the names are moved out, or after (the
\* order in which the arguments are initialised is the compiler's choice).
SizeReads == {"before move", "after move"}

\* from_bytes(bytes)
from_bytes(bytes, size_read) ==
    IF Len(bytes) < 16 THEN Ret(EmptyFrame, "runtime_error: size")
    ELSE LET nr == FromLE(Sub(bytes, 0, 8))
             nc == FromLE(Sub(bytes, 8, 8))
             n == read_names(bytes, 16, nc, <<>>)
         IN IF n.err # "none" THEN Ret(EmptyFrame, n.err)
            ELSE LET c == read_columns(bytes, n.offset, nr, n.names, 1,
                                       NoColumns)
                 IN IF c.err # "none" THEN Ret(EmptyFrame, c.err)
                    ELSE DataFrameParts(nr,
                            IF size_read = "before move"
                            THEN Len(n.names) ELSE 0,
                            n.names, c.map)

(***************************************************************************)
(* The codec machines: a table is written and what was written is read.    *)
(***************************************************************************)
\* The tables handed to a codec: up to two columns added to DataFrame{} by
\* add_column, of every type, with up to MaxRows rows.
TablesOfOne ==
    UNION {UNION {{add_column(EmptyFrame, n, T, d).df :
                      d \in SeqsUpTo(Vals(T), MaxRows)} :
                  T \in Types} :
           n \in Names}

TablesOfTwo ==
    UNION {UNION {UNION {{add_column(t, n, T, d).df :
                             d \in [1..t.rows -> Vals(T)]} :
                         T \in Types} :
                  n \in Names \ DOMAIN t.columns} :
           t \in TablesOfOne}

CodecTables == {EmptyFrame} \cup TablesOfOne \cup TablesOfTwo

Run(t, data, out) == [t |-> t, data |-> data, out |-> out]

InitBytes ==
    /\ \E t \in CodecTables : io = Run(t, <<>>, EmptyFrame)
    /\ last = Called("table", "none")
    /\ df = EmptyFrame
    /\ cobj = ColumnReserve("Int64")
    /\ jn = <<>>

ToBytes ==
    /\ last.op = "table"
    /\ io' = [io EXCEPT !.data = to_bytes(io.t)]
    /\ last' = Called("to_bytes", "none")
    /\ UNCHANGED <<df, cobj, jn>>

FromBytes ==
    /\ last.op = "to_bytes"
    /\ \E size_read \in SizeReads : \E r \in {from_bytes(io.data, size_read)} :
          /\ io' = [io EXCEPT !.out = r.df]
          /\ last' = Called("from_bytes", r.err)
    /\ UNCHANGED <<df, cobj, jn>>

NextBytes == ToBytes \/ FromBytes

SpecBytes == InitBytes /\ [][NextBytes]_vars

\* Same names in the same order and the same cells under every name
SameNamesAndCells(t, u) ==
    /\ u.column_info = t.column_info
    /\ DOMAIN u.columns = DOMAIN t.columns
    /\ \A k \in DOMAIN t.columns :
          /\ u.columns[k].type = t.columns[k].type
          /\ u.columns[k].data = t.columns[k].data

\* C7: from_bytes(to_bytes(t)) succeeds for every table t, a table with zero
\* rows included, and returns a table with the same shape, the same column
\* names in the same order and the same cell contents.
C7_BytesRoundTrip ==
    last.op = "from_bytes" =>
        /\ last.err = "none"
        /\ io.out.rows = io.t.rows
        /\ io.out.cols = io.t.cols
        /\ SameNamesAndCells(io.t, io.out)

(***************************************************************************)
(* Text (utils.h, io/csv.cpp).  A text is a sequence of characters.        *)
(***************************************************************************)
\* std::isspace in the "C" locale
IsSpace(ch) == ch \in {" ", "\t", "\n", "\r"}

RECURSIVE DropLeadingSpace(_)
DropLeadingSpace(sv) ==
    IF Len(sv) > 0 /\ IsSpace(Head(sv)) THEN DropLeadingSpace(Tail(sv)) ELSE sv

RECURSIVE DropTrailingSpace(_)
DropTrailingSpace(sv) ==
    IF Len(sv) > 0 /\ IsSpace(sv[Len(sv)])
    THEN DropTrailingSpace(SubSeq(sv, 1, Len(sv) - 1)) ELSE sv

\* utils::trim ('\r' and '\n' are spaces already)
trim(sv) == DropTrailingSpace(DropLeadingSpace(sv))

TokenAsCut(line, start, i) == Sub(line, start, i - start)

\* What to_tokens makes of line[start, i): trimmed, then one pair of
\* surrounding quotes removed.
Token(line, start, i) ==
    LET token == trim(Sub(line, start, i - start))
    IN IF Len(token) >= 2 /\ Head(token) = "\"" /\ token[Len(token)] = "\""
       THEN SubSeq(token, 2, Len(token) - 1) ELSE token

\* The loop of to_tokens from position i (counted from 0) on
RECURSIVE tokens_loop(_, _, _, _, _, _)
tokens_loop(line, delimiter, i, start, in_quotes, tokens) ==
    IF i > Len(line) THEN tokens
    ELSE LET quotes == IF i < Len(line) /\ line[i + 1] = "\""
                       THEN ~in_quotes ELSE in_quotes
             at_delimiter == i < Len(line) /\ line[i + 1] = delimiter /\ ~quotes
         IN IF at_delimiter \/ i = Len(line)
            THEN tokens_loop(line, delimiter, i + 1, i + 1, quotes,
                             Append(tokens, Token(line, start, i)))
            ELSE tokens_loop(line, delimiter, i + 1, start, quotes, tokens)

\* to_tokens(line, delimiter)
to_tokens(line, delimiter) == tokens_loop(line, delimiter, 0, 0, FALSE, <<>>)

Digits == <<"0", "1", "2", "3", "4", "5", "6", "7", "8", "9">>
IsDigit(ch) == \E d \in DOMAIN Digits : Digits[d] = ch
DigitValue(ch) == (CHOOSE d \in DOMAIN Digits : Digits[d] = ch) - 1

\* The value of a run of digits
RECURSIVE DigitsValue(_, _)
DigitsValue(sv, acc) ==
    IF Len(sv) = 0 THEN acc
    ELSE DigitsValue(Tail(sv), 10 * acc + DigitValue(Head(sv)))

AllDigits(sv) == \A i \in DOMAIN sv : IsDigit(sv[i])

Unsigned(sv) == IF Len(sv) > 0 /\ Head(sv) = "-" THEN Tail(sv) ELSE sv
Signed(sv, n) == IF Len(sv) > 0 /\ Head(sv) = "-" THEN -n ELSE n

\* std::from_chars on the whole of sv for an int64_t: an optional minus and
\* at least one digit, nothing else.
from_chars_int64(sv) ==
    LET body == Unsigned(sv)
    IN IF Len(body) > 0 /\ AllDigits(body)
       THEN [ok |-> TRUE, val |-> Signed(sv, DigitsValue(body, 0))]
       ELSE [ok |-> FALSE, val |-> 0]

\* Where the first "." of sv is (counted from 1), Len(sv) + 1 if none
RECURSIVE PointAt(_, _)
PointAt(sv, i) ==
    IF i > Len(sv) \/ sv[i] = "." THEN i ELSE PointAt(sv, i + 1)

\* A fraction the model's doubles can hold: nothing, zeros, or 5 and zeros
HalfFraction(fr) ==
    IF Len(fr) = 0 \/ Head(fr) = "0" THEN 0 ELSE 1

\* std::from_chars on the whole of sv for a double, without exponents: an
\* optional minus, digits, optionally a point and digits, at least one
\* digit in all.  The value is a count of halves, so the texts the model
\* reads have fractions of .0 or .5 only.
from_chars_double(sv) ==
    LET body == Unsigned(sv)
        pt == PointAt(body, 1)
        whole == SubSeq(body, 1, pt - 1)
        fr == SubSeq(body, pt + 1, Len(body))
    IN IF AllDigits(whole) /\ AllDigits(fr) /\ Len(whole) + Len(fr) > 0
       THEN [ok |-> TRUE,
             val |-> Signed(sv, 2 * DigitsValue(whole, 0) + HalfFraction(fr))]
       ELSE [ok |-> FALSE, val |-> 0]

from_chars(T, sv) ==
    IF T = "Int64" THEN from_chars_int64(sv) ELSE from_chars_double(sv)

\* utils::try_parse<T>
try_parse(T, sv) == from_chars(T, sv).ok

ParseOrZero(T, sv) == IF from_chars(T, sv).ok THEN from_chars(T, sv).val ELSE 0

\* utils::parse<T>: the value, or the sentinel when sv is not a T
parse(T, sv) == IF from_chars(T, sv).ok THEN from_chars(T, sv).val ELSE get_null(T)

(***************************************************************************)
(* CSV (io/csv.cpp, and the member from_csv of dataframe.cpp).             *)
(***************************************************************************)
\* operator<< of an unsigned value: its decimal digits
RECURSIVE DigitsOf(_)
DigitsOf(n) ==
    IF n < 10 THEN <<Digits[n + 1]>>
    ELSE Append(DigitsOf(n \div 10), Digits[(n % 10) + 1])

\* file << v for an int64_t
FormatInt64(v) == IF v < 0 THEN <<"-">> \o DigitsOf(-v) ELSE DigitsOf(v)

\* file << v for a double at the stream's default precision of 6, for the
\* values below 100000 in magnitude (which have one decimal at most and so
\* print in full, in fixed notation).  v is a count of halves.
FormatDouble(v) ==
    LET m == IF v < 0 THEN -v ELSE v
        whole == DigitsOf(m \div 2)
        text == IF m % 2 = 1 THEN whole \o <<".", "5">> ELSE whole
    IN IF v < 0 THEN <<"-">> \o text ELSE text

\* What to_csv writes for column[i]: nothing for a sentinel
FormatCell(c, i) ==
    IF is_null(c.type, c.data[i]) THEN <<>>
    ELSE CASE c.type = "Int64" -> FormatInt64(c.data[i])
           [] c.type = "Double" -> FormatDouble(c.data[i])
           [] c.type = "String" -> c.data[i]

\* The header loop of to_csv from column_names[i] on
RECURSIVE header_to_csv(_, _, _)
header_to_csv(column_names, delimiter, i) ==
    IF i > Len(column_names) THEN <<>>
    ELSE column_names[i]
            \o (IF i < Len(column_names) THEN <<delimiter>> ELSE <<>>)
            \o header_to_csv(column_names, delimiter, i + 1)

\* The inner loop of to_csv for row i (counted from 1) from column j on
RECURSIVE row_to_csv(_, _, _, _)
row_to_csv(t, delimiter, i, j) ==
    IF j > Len(t.column_info) THEN <<>>
    ELSE FormatCell(t.columns[t.column_info[j]], i)
            \o (IF j < Len(t.column_info) THEN <<delimiter>> ELSE <<>>)
            \o row_to_csv(t, delimiter, i, j + 1)

\* The outer loop of to_csv from row i on: a newline ends every row
RECURSIVE rows_to_csv(_, _, _)
rows_to_csv(t, delimiter, i) ==
    IF i > t.rows THEN <<>>
    ELSE row_to_csv(t, delimiter, i, 1) \o <<"\n">>
            \o rows_to_csv(t, delimiter, i + 1)

\* to_csv(df, csv, delimiter): the text of the file
to_csv(t, delimiter) ==
    IF \E i \in DOMAIN t.column_info : t.column_info[i] \notin DOMAIN t.columns
    THEN [text |-> <<>>, err |-> "runtime_error: column not found"]
    ELSE [text |-> header_to_csv(t.column_info, delimiter, 1) \o <<"\n">>
                      \o rows_to_csv(t, delimiter, 1),
          err |-> "none"]

\* buffer.find(ch, from): the first position (counted from 0) at or after
\* from that holds ch, and -1 for npos
find(buffer, ch, from) ==
    LET at == {i \in from..(Len(buffer) - 1) : buffer[i + 1] = ch}
    IN IF at = {} THEN -1
       ELSE CHOOSE i \in at : \A k \in at : i <= k

\* std::count(buffer.begin() + from, buffer.end(), ch)
std_count(buffer, ch, from) ==
    Cardinality({i \in from..(Len(buffer) - 1) : buffer[i + 1] = ch})

\* Where the line that starts at line_start ends
LineEnd(buffer, line_start) ==
    IF find(buffer, "\n", line_start) = -1 THEN Len(buffer)
    ELSE find(buffer, "\n", line_start)

\* The line number at which infer_types stops reading
InferLimit == 100

\* The index (counted from 0) that column_states keeps for a name: the
\* later of two equal headers overwrites the earlier.
StateIndex(headers, name) ==
    (CHOOSE i \in DOMAIN headers :
        /\ headers[i] = name
        /\ \A j \in DOMAIN headers : headers[j] = name => j <= i) - 1

\* One column's InferenceState after a line with the given tokens
InferStep(state, tokens) ==
    IF (~state.as_int /\ ~state.as_double) \/ state.index >= Len(tokens)
    THEN state
    ELSE LET value == tokens[state.index + 1] IN
         IF Len(value) = 0 THEN state
         ELSE [state EXCEPT
                 !.as_int = @ /\ try_parse("Int64", value),
                 !.as_double = @ /\ try_parse("Double", value)]

\* One pass of the while loop of infer_types over s, the loop's line_start,
\* line_number and column_states; once the loop's condition fails s stays.
infer_pass(data, delimiter, s) ==
    IF ~(s.line_start < Len(data) /\ s.line_number < InferLimit) THEN s
    ELSE LET line_end == LineEnd(data, s.line_start)
             line == Sub(data, s.line_start, line_end - s.line_start)
         IN IF Len(trim(line)) = 0
            THEN [s EXCEPT !.line_start = line_end + 1]
            ELSE [line_start |-> line_end + 1,
                  line_number |-> s.line_number + 1,
                  column_states |->
                    [k \in DOMAIN s.column_states |->
                        InferStep(s.column_states[k],
                                  to_tokens(line, delimiter))]]

\* n passes of the loop, the later half after the earlier half; a loop whose
\* condition fails, or one with no column to infer, changes no state.
RECURSIVE infer_passes(_, _, _, _)
infer_passes(data, delimiter, s, n) ==
    IF \/ n = 0
       \/ ~(s.line_start < Len(data) /\ s.line_number < InferLimit)
       \/ s.column_states = <<>>
    THEN s
    ELSE IF n = 1 THEN infer_pass(data, delimiter, s)
    ELSE infer_passes(data, delimiter,
                      infer_passes(data, delimiter, s, n \div 2), n - n \div 2)

\* The line loop of infer_types: every pass moves line_start forward, so that
\* the condition fails within Len(data) passes.
infer_loop(data, delimiter, line_start, line_number, column_states) ==
    infer_passes(data, delimiter,
                 [line_start |-> line_start, line_number |-> line_number,
                  column_states |-> column_states],
                 Len(data)).column_states

InferredAlwaysString(state) == "String"

InferredType(state) ==
    IF state.as_int THEN "Int64"
    ELSE IF state.as_double THEN "Double" ELSE "String"

\* infer_types(data, headers, types, delimiter); types is a function from
\* names to types.
infer_types(data, headers, types, delimiter) ==
    LET untyped == Range(headers) \ DOMAIN types
        initial == [k \in untyped |->
                      [index |-> StateIndex(headers, k),
                       as_int |-> TRUE, as_double |-> TRUE]]
        final == infer_loop(data, delimiter, find(data, "\n", 0) + 1, 2, initial)
    IN [k \in untyped \cup DOMAIN types |->
          IF k \in DOMAIN types THEN types[k] ELSE InferredType(final[k])]

\* The value a column of type T takes from a token
CellOf(T, value) == IF T = "String" THEN value ELSE parse(T, value)

\* The inner loop of from_csv over a line's tokens from headers[i] on
RECURSIVE append_tokens(_, _, _, _)
append_tokens(map, headers, tokens, i) ==
    IF i > Len(headers) THEN map
    ELSE append_tokens(
            [map EXCEPT ![headers[i]] = append(@, CellOf(@.type, tokens[i]))],
            headers, tokens, i + 1)

\* The line loop of from_csv; line is the line_number in the message of the
\* error
RECURSIVE read_lines(_, _, _, _, _, _)
read_lines(buffer, delimiter, line_start, line_number, headers, map) ==
    IF ~(line_start < Len(buffer))
    THEN [map |-> map, err |-> "none", line |-> line_number]
    ELSE LET line_end == LineEnd(buffer, line_start)
             line == Sub(buffer, line_start, line_end - line_start)
             tokens == to_tokens(line, delimiter)
         IN IF Len(trim(line)) = 0
            THEN read_lines(buffer, delimiter, line_end + 1, line_number,
                            headers, map)
            ELSE IF Len(tokens) # Len(headers)
            THEN [map |-> map, err |-> "runtime_error: malformed line",
                  line |-> line_number]
            ELSE read_lines(buffer, delimiter, line_end + 1, line_number + 1,
                            headers, append_tokens(map, headers, tokens, 1))

\* What both from_csv read of a buffer before they build the table: the
\* headers, the counted rows and the filled columns.
read_csv(buffer, types, delimiter) ==
    LET header_end == find(buffer, "\n", 0)
        headers == to_tokens(Sub(buffer, 0, header_end), delimiter)
        row_count == std_count(buffer, "\n", header_end)
        all_types == IF Cardinality(DOMAIN types) # Len(headers)
                     THEN infer_types(buffer, headers, types, delimiter)
                     ELSE types
        empty == [k \in Range(headers) |-> ColumnReserve(all_types[k])]
        read == read_lines(buffer, delimiter, header_end + 1, 2, headers, empty)
    IN IF header_end = -1
       THEN [err |-> "invalid_argument: missing header", line |-> 0]
       ELSE IF \E k \in DOMAIN types : k \notin Range(headers)
       THEN [err |-> "invalid_argument: invalid column", line |-> 0]
       ELSE [err |-> read.err, headers |-> headers, row_count |-> row_count,
             columns |-> read.map, line |-> read.line]

\* DataFrame(r, cn, d) of core/dataframe.cpp: column_info is declared
\* before cols, so cols is read from the moved-from (empty) cn; then pads.
DataFrameRows(r, cn, d) == DataFrameParts(r, 0, cn, d)

\* from_csv(csv, types, delimiter) of io/csv.cpp, on the text of the file
from_csv(buffer, types, delimiter) ==
    LET read == read_csv(buffer, types, delimiter)
    IN IF read.err # "none"
       THEN [df |-> EmptyFrame, err |-> read.err, line |-> read.line]
       ELSE LET r == DataFrameRows(read.row_count, read.headers, read.columns)
            IN [df |-> r.df, err |-> r.err, line |-> 0]

\* DataFrame::from_csv(csv, types, delimiter) of dataframe.cpp, called on a
\* DataFrame{}: the members are assigned as they are read, without padding.
\* What an exception leaves in the table is not modelled.
DataFrame_from_csv(buffer, types, delimiter) ==
    LET read == read_csv(buffer, types, delimiter)
    IN IF read.err # "none"
       THEN [df |-> EmptyFrame, err |-> read.err, line |-> read.line]
       ELSE [df |-> [columns |-> read.columns, column_info |-> read.headers,
                     rows |-> read.row_count, cols |-> Len(read.headers)],
             err |-> "none", line |-> 0]

(***************************************************************************)
(* The CSV machine: a table is written and the text read back, or a text   *)
(* written by hand is read.                                                *)
(***************************************************************************)
Comma == ","

\* The fields of the texts written by hand
CsvFields == {<<>>, <<"1">>, <<"1", ".", "5">>, <<"x">>}

CsvHeaders == {<<NameA>>, <<NameA, NameB>>}

\* The data lines under a header, as fields: as many fields as the header
\* has, and no blank line (a single empty field).
CsvLines(header) ==
    {l \in [1..Len(header) -> CsvFields] : Len(header) > 1 \/ Len(l[1]) > 0}

RECURSIVE JoinWith(_, _, _)
JoinWith(parts, sep, i) ==
    IF i > Len(parts) THEN <<>>
    ELSE parts[i] \o (IF i < Len(parts) THEN <<sep>> ELSE <<>>)
            \o JoinWith(parts, sep, i + 1)

\* The text of a header and data lines, with or without a newline after
\* the last data line
CsvText(header, lines, newline_at_end) ==
    JoinWith(header, Comma, 1) \o <<"\n">>
       \o JoinWith([i \in DOMAIN lines |-> JoinWith(lines[i], Comma, 1)], "\n", 1)
       \o (IF newline_at_end THEN <<"\n">> ELSE <<>>)

\* The scenario "a,b\n1,x\n2,\n3,z\n"
ExampleHeader == <<NameA, NameB>>
ExampleLines ==
    <<(<<(<<"1">>), (<<"x">>)>>), (<<(<<"2">>), (<<>>)>>), (<<(<<"3">>), (<<"z">>)>>)>>
ExampleCsv == CsvText(ExampleHeader, ExampleLines, TRUE)

NoTypes == [n \in {} |-> "Int64"]

\* The types a caller passes for a text: none, one type for every column,
\* or a type for the first column only.
TypeChoices(header) ==
    {NoTypes} \cup {[k \in Range(header) |-> T] : T \in Types}
              \cup {[k \in {header[1]} |-> "String"]}

\* The types of a table's columns
TypesOf(t) == [k \in DOMAIN t.columns |-> t.columns[k].type]

CsvRun(origin, t, header, lines, data) ==
    [origin |-> origin, t |-> t, header |-> header, lines |-> lines,
     data |-> data, types |-> NoTypes, out |-> EmptyFrame, line |-> 0]

InitCsv ==
    /\ \/ /\ \E t \in CodecTables : io = CsvRun("table", t, <<>>, <<>>, <<>>)
          /\ last = Called("table", "none")
       \/ /\ \E header \in CsvHeaders :
             \E lines \in SeqsUpTo(CsvLines(header), MaxRows) :
             \E newline_at_end \in {b \in BOOLEAN : Len(lines) > 0 \/ ~b} :
                io = CsvRun("text", EmptyFrame, header, lines,
                            CsvText(header, lines, newline_at_end))
          /\ last = Called("text", "none")
       \/ /\ io = CsvRun("text", EmptyFrame, ExampleHeader, ExampleLines,
                         ExampleCsv)
          /\ last = Called("text", "none")
    /\ df = EmptyFrame
    /\ cobj = ColumnReserve("Int64")
    /\ jn = <<>>

ToCsv ==
    /\ last.op = "table"
    /\ \E r \in {to_csv(io.t, Comma)} :
          /\ io' = [io EXCEPT !.data = r.text]
          /\ last' = Called("to_csv", r.err)
    /\ UNCHANGED <<df, cobj, jn>>

\* The types passed when reading: the table's own or none for a text that
\* to_csv wrote, a caller's choice for a text written by hand.
TypesPassed ==
    IF io.origin = "table" THEN {TypesOf(io.t), NoTypes}
    ELSE TypeChoices(io.header)

Readable == last.op \in {"to_csv", "text"} /\ last.err = "none"

FromCsv ==
    /\ Readable
    /\ \E types \in TypesPassed : \E r \in {from_csv(io.data, types, Comma)} :
          /\ ~Fatal(r.err)
          /\ io' = [io EXCEPT !.types = types, !.out = r.df, !.line = r.line]
          /\ last' = Called("from_csv", r.err)
    /\ UNCHANGED <<df, cobj, jn>>

MemberFromCsv ==
    /\ Readable
    /\ \E types \in TypesPassed :
       \E r \in {DataFrame_from_csv(io.data, types, Comma)} :
          /\ io' = [io EXCEPT !.types = types, !.out = r.df, !.line = r.line]
          /\ last' = Called("DataFrame::from_csv", r.err)
    /\ UNCHANGED <<df, cobj, jn>>

NextCsv == ToCsv \/ FromCsv \/ MemberFromCsv

SpecCsv == InitCsv /\ [][NextCsv]_vars

\* The cells a column of the table read holds for the data lines of a text
\* written by hand: the parsed field j of every line, in file order.
ParsedFields(c, lines, j) ==
    [i \in DOMAIN lines |-> CellOf(c.type, lines[i][j])]

\* C8: from_csv on a header line followed by k non-blank data lines with as
\* many fields as the header, with or without a newline after the last
\* line, returns a table of k rows whose columns hold the k parsed values
\* in file order; the text "a,b\n1,x\n2,\n3,z\n" read with inferred
\* types gives a:Int64 = [1, 2, 3] and b:String = ["x", "", "z"].
C8_CsvRowsAreDataLines ==
    (io.origin = "text" /\ last.op \in {"from_csv", "DataFrame::from_csv"}) =>
        /\ last.err = "none"
        /\ io.out.rows = Len(io.lines)
        /\ io.out.column_info = io.header
        /\ \A j \in DOMAIN io.header :
              io.out.columns[io.header[j]].data
                 = ParsedFields(io.out.columns[io.header[j]], io.lines, j)
        /\ (io.data = ExampleCsv /\ io.types = NoTypes) =>
              /\ io.out.columns[NameA].type = "Int64"
              /\ io.out.columns[NameA].data = <<1, 2, 3>>
              /\ io.out.columns[NameB].type = "String"
              /\ io.out.columns[NameB].data = <<(<<"x">>), (<<>>), (<<"z">>)>>

\* C9: to_csv followed by from_csv with the table's own column types
\* returns a table with the original row count, the original names in
\* order and the original cells, the null cells as sentinels.
C9_CsvRoundTrip ==
    (io.origin = "table" /\ last.op = "from_csv" /\ io.types = TypesOf(io.t)) =>
        /\ last.err = "none"
        /\ io.out.rows = io.t.rows
        /\ SameNamesAndCells(io.t, io.out)

(***************************************************************************)
(* Joins (dataframe.cpp).  The operands are tables whose names all have a  *)
(* column of rows elements.                                                *)
(***************************************************************************)
\* DataFrame::get_row(index) for index < rows: Row::data
get_row(t, index) ==
    [k \in Range(t.column_info) |->
        [type |-> t.columns[k].type, val |-> t.columns[k].data[index + 1]]]

\* The rows that build_row_hash_map files under row_hash, from row i on
RECURSIVE HashedRows(_, _, _, _)
HashedRows(t, on, row_hash, i) ==
    IF i >= t.rows THEN <<>>
    ELSE (IF compute_row_hash(t, i, on, 1, WZero) = row_hash
          THEN <<get_row(t, i)>> ELSE <<>>)
            \o HashedRows(t, on, row_hash, i + 1)

\* DataFrame::build_row_hash_map(df, on): from a hash to the rows that have
\* it, in row order
build_row_hash_map(t, on) ==
    [row_hash \in {compute_row_hash(t, i, on, 1, WZero) : i \in 0..(t.rows - 1)}
        |-> HashedRows(t, on, row_hash, 0)]

\* DataFrame::setup_join: the names of the result, the names taken from
\* right, and an empty column under every name; a name of right that is
\* not in on replaces the column left put under that name.
setup_join(left, right, on) ==
    LET right_names == SelectSeq(right.column_info,
                                 LAMBDA n : n \notin Range(on))
    IN [all_names |-> left.column_info \o right_names,
        right_names |-> right_names,
        result |-> [k \in Range(left.column_info) \cup Range(right_names) |->
                      IF k \in Range(right_names)
                      THEN ColumnReserve(right.columns[k].type)
                      ELSE ColumnReserve(left.columns[k].type)]]

\* append_left(i) from left's k-th name on: std::get throws when the
\* column under the name has another type than left's.
RECURSIVE append_left(_, _, _, _)
append_left(result, left, i, k) ==
    IF k > Len(left.column_info) THEN [result |-> result, err |-> "none"]
    ELSE LET name == left.column_info[k]
             column == left.columns[name]
         IN IF result[name].type # column.type
            THEN [result |-> result, err |-> "bad_variant_access"]
            ELSE append_left(
                    [result EXCEPT ![name] = append(@, column.data[i + 1])],
                    left, i, k + 1)

\* append_right(row) from the k-th name taken from right on
RECURSIVE append_right(_, _, _, _)
append_right(result, right_names, row, k) ==
    IF k > Len(right_names) THEN [result |-> result, err |-> "none"]
    ELSE LET name == right_names[k] IN
         IF row[name].type # result[name].type
         THEN [result |-> result, err |-> "bad_variant_access"]
         ELSE append_right(
                 [result EXCEPT ![name] = append(@, row[name].val)],
                 right_names, row, k + 1)

\* The loop over the right rows matched by left row i, from the k-th on
RECURSIVE append_matches(_, _, _, _, _, _)
append_matches(result, left, right_names, matched, i, k) ==
    IF k > Len(matched) THEN [result |-> result, err |-> "none"]
    ELSE LET l == append_left(result, left, i, 1) IN
         IF l.err # "none" THEN l
         ELSE LET r == append_right(l.result, right_names, matched[k], 1) IN
              IF r.err # "none" THEN r
              ELSE append_matches(r.result, left, right_names, matched, i, k + 1)

\* The loop of inner_join over the left rows from row i on
RECURSIVE inner_join_loop(_, _, _, _, _, _, _)
inner_join_loop(result, left, right_names, on, hashes, i, total_rows) ==
    IF i >= left.rows
    THEN [result |-> result, total_rows |-> total_rows, err |-> "none"]
    ELSE LET row_hash == compute_row_hash(left, i, on, 1, WZero) IN
         IF row_hash \notin DOMAIN hashes
         THEN inner_join_loop(result, left, right_names, on, hashes, i + 1,
                              total_rows)
         ELSE LET m == append_matches(result, left, right_names,
                                      hashes[row_hash], i, 1)
              IN IF m.err # "none"
                 THEN [result |-> m.result, total_rows |-> total_rows,
                       err |-> m.err]
                 ELSE inner_join_loop(m.result, left, right_names, on, hashes,
                         i + 1, total_rows + Len(hashes[row_hash]))

\* DataFrame::inner_join(left, right, on)
inner_join(left, right, on) ==
    IF ~validate_subset(left, on) \/ ~validate_subset(right, on)
    THEN Ret(EmptyFrame, "invalid_argument")
    ELSE LET s == setup_join(left, right, on)
             j == inner_join_loop(s.result, left, s.right_names, on,
                                  build_row_hash_map(right, on), 0, 0)
         IN IF j.err # "none" THEN Ret(EmptyFrame, j.err)
            ELSE DataFrameParts(j.total_rows, Len(s.all_names), s.all_names,
                                j.result)

\* append_right(row) of left_join from the k-th name taken from right on;
\* row is a pointer, <<>> (nullptr) for a left row without a match, and the
\* column then takes its sentinel.
RECURSIVE append_right_or_null(_, _, _, _)
append_right_or_null(result, right_names, row, k) ==
    IF k > Len(right_names) THEN [result |-> result, err |-> "none"]
    ELSE LET name == right_names[k] IN
         IF Len(row) = 0
         THEN append_right_or_null(
                 [result EXCEPT ![name] = append(@, get_null(@.type))],
                 right_names, row, k + 1)
         ELSE IF row[1][name].type # result[name].type
         THEN [result |-> result, err |-> "bad_variant_access"]
         ELSE append_right_or_null(
                 [result EXCEPT ![name] = append(@, row[1][name].val)],
                 right_names, row, k + 1)

\* The loop of left_join over the pointers to the right rows matched by
\* left row i (the one nullptr when there is none)
RECURSIVE append_left_matches(_, _, _, _, _, _)
append_left_matches(result, left, right_names, matched, i, k) ==
    IF k > Len(matched) THEN [result |-> result, err |-> "none"]
    ELSE LET l == append_left(result, left, i, 1) IN
         IF l.err # "none" THEN l
         ELSE LET r == append_right_or_null(l.result, right_names,
                                            matched[k], 1)
              IN IF r.err # "none" THEN r
                 ELSE append_left_matches(r.result, left, right_names,
                                          matched, i, k + 1)

\* The loop of left_join over the left rows from row i on
RECURSIVE left_join_loop(_, _, _, _, _, _, _)
left_join_loop(result, left, right_names, on, hashes, i, total_rows) ==
    IF i >= left.rows
    THEN [result |-> result, total_rows |-> total_rows, err |-> "none"]
    ELSE LET row_hash == compute_row_hash(left, i, on, 1, WZero)
             found == row_hash \in DOMAIN hashes
             matched == IF found
                        THEN [k \in DOMAIN hashes[row_hash] |->
                                 <<hashes[row_hash][k]>>]
                        ELSE <<(<<>>)>>
             m == append_left_matches(result, left, right_names, matched, i, 1)
         IN IF m.err # "none"
            THEN [result |-> m.result, total_rows |-> total_rows,
                  err |-> m.err]
            ELSE left_join_loop(m.result, left, right_names, on, hashes, i + 1,
                    total_rows + (IF found THEN Len(hashes[row_hash]) ELSE 1))

\* DataFrame::left_join(left, right, on)
left_join(left, right, on) ==
    IF ~validate_subset(left, on) \/ ~validate_subset(right, on)
    THEN Ret(EmptyFrame, "invalid_argument")
    ELSE LET s == setup_join(left, right, on)
             j == left_join_loop(s.result, left, s.right_names, on,
                                 build_row_hash_map(right, on), 0, 0)
         IN IF j.err # "none" THEN Ret(EmptyFrame, j.err)
            ELSE DataFrameParts(j.total_rows, Len(s.all_names), s.all_names,
                                j.result)

\* DataFrame::right_join(left, right, on)
right_join(left, right, on) == left_join(right, left, on)

(***************************************************************************)
(* The join machine: two tables are built and joined.                      *)
(***************************************************************************)
NameC == <<"c">>

\* The tables add_column builds from the tables ts by adding the names from
\* names[i] on, every column with r values
RECURSIVE AddColumns(_, _, _, _)
AddColumns(ts, names, i, r) ==
    IF i > Len(names) THEN ts
    ELSE AddColumns(
            UNION {UNION {{add_column(t, names[i], T, d).df :
                              d \in [1..r -> Vals(T)]} :
                          T \in TableTypes} :
                   t \in ts},
            names, i + 1, r)

JoinTables(names) ==
    UNION {AddColumns({EmptyFrame}, names, 1, r) : r \in 0..MaxRows}

LeftTables == JoinTables(<<NameA>>) \cup JoinTables(<<NameA, NameB>>)

RightTables == JoinTables(<<NameA, NameC>>) \cup JoinTables(<<NameA, NameB>>)

\* The scenario left{id, v}, right{id, w}
NameId == <<"i", "d">>
NameV == <<"v">>
NameW == <<"w">>
ExampleLeft ==
    add_column(add_column(EmptyFrame, NameId, "Int64", <<1, 2, 3>>).df,
               NameV, "String", <<(<<"a">>), (<<"b">>), (<<"c">>)>>).df
ExampleRight ==
    add_column(add_column(EmptyFrame, NameId, "Int64", <<2, 3, 4>>).df,
               NameW, "String", <<(<<"x">>), (<<"y">>), (<<"z">>)>>).df

JoinRun(left, right) ==
    [left |-> left, right |-> right, on |-> <<>>, out |-> EmptyFrame]

InitJoin ==
    /\ \/ \E left \in LeftTables, right \in RightTables :
             jn = JoinRun(left, right)
       \/ jn = JoinRun(ExampleLeft, ExampleRight)
    /\ last = Called("tables", "none")
    /\ df = EmptyFrame
    /\ cobj = ColumnReserve("Int64")
    /\ io = <<>>

\* The on lists a caller passes: none of left's names, the first, or all
OnLists(left) ==
    {<<>>, <<left.column_info[1]>>, left.column_info}

\* What a join leaves: the table returned, or none after an exception
Joined(r) == IF r.err = "none" THEN r.df ELSE EmptyFrame

InnerJoin ==
    /\ last.op = "tables"
    /\ \E on \in OnLists(jn.left) :
       \E r \in {inner_join(jn.left, jn.right, on)} :
          /\ jn' = [jn EXCEPT !.on = on, !.out = Joined(r)]
          /\ last' = Called("inner_join", r.err)
    /\ UNCHANGED <<df, cobj, io>>

LeftJoin ==
    /\ last.op = "tables"
    /\ \E on \in OnLists(jn.left) :
       \E r \in {left_join(jn.left, jn.right, on)} :
          /\ jn' = [jn EXCEPT !.on = on, !.out = Joined(r)]
          /\ last' = Called("left_join", r.err)
    /\ UNCHANGED <<df, cobj, io>>

RightJoin ==
    /\ last.op = "tables"
    /\ \E on \in OnLists(jn.left) :
       \E r \in {right_join(jn.left, jn.right, on)} :
          /\ jn' = [jn EXCEPT !.on = on, !.out = Joined(r)]
          /\ last' = Called("right_join", r.err)
    /\ UNCHANGED <<df, cobj, io>>

NextJoin == InnerJoin \/ LeftJoin \/ RightJoin

SpecJoin == InitJoin /\ [][NextJoin]_vars

OnIsValid == validate_subset(jn.left, jn.on) /\ validate_subset(jn.right, jn.on)

\* The pairs (i, j) of a left row and a right row with equal hashes over
\* on, ordered by i and then by j, from the pair (i, j) on
RECURSIVE MatchingPairs(_, _, _, _, _)
MatchingPairs(left, right, on, i, j) ==
    IF i >= left.rows THEN <<>>
    ELSE IF j >= right.rows THEN MatchingPairs(left, right, on, i + 1, 0)
    ELSE (IF compute_row_hash(left, i, on, 1, WZero)
               = compute_row_hash(right, j, on, 1, WZero)
          THEN <<(<<i, j>>)>> ELSE <<>>)
            \o MatchingPairs(left, right, on, i, j + 1)

\* right's names that are not in on
RightOnly(right, on) ==
    SelectSeq(right.column_info, LAMBDA n : n \notin Range(on))

\* C10: inner_join(left, right, on) returns one row for each pair of a left
\* row i and a right row j whose hashes over on are equal, ordered by i and
\* then by j, with left's columns followed by right's columns not in on (so
\* an unmatched left row gives no row); left{id:[1,2,3], v:[a,b,c]} and
\* right{id:[2,3,4], w:[x,y,z]} on [id] give the rows {2,b,x} and {3,c,y}.
C10_InnerJoinRowsAreHashMatches ==
    (last.op = "inner_join" /\ OnIsValid) =>
        LET pairs == MatchingPairs(jn.left, jn.right, jn.on, 0, 0) IN
        /\ last.err = "none"
        /\ jn.out.rows = Len(pairs)
        /\ jn.out.column_info
              = jn.left.column_info \o RightOnly(jn.right, jn.on)
        /\ \A n \in Range(jn.left.column_info) :
              jn.out.columns[n].data
                 = [k \in DOMAIN pairs |-> jn.left.columns[n].data[pairs[k][1] + 1]]
        /\ \A n \in Range(RightOnly(jn.right, jn.on)) :
              jn.out.columns[n].data
                 = [k \in DOMAIN pairs |-> jn.right.columns[n].data[pairs[k][2] + 1]]
        /\ (jn.left = ExampleLeft /\ jn.right = ExampleRight) =>
              /\ jn.out.rows = 2
              /\ jn.out.columns[NameId].data = <<2, 3>>
              /\ jn.out.columns[NameV].data = <<(<<"b">>), (<<"c">>)>>
              /\ jn.out.columns[NameW].data = <<(<<"x">>), (<<"y">>)>>

\* For every left row in order: the pairs (i, j) with its matching right
\* rows j in order, or the one pair (i, -1) when no right row matches
RECURSIVE LeftPairs(_, _, _, _)
LeftPairs(left, right, on, i) ==
    IF i >= left.rows THEN <<>>
    ELSE LET matches == {j \in 0..(right.rows - 1) :
                            compute_row_hash(left, i, on, 1, WZero)
                               = compute_row_hash(right, j, on, 1, WZero)}
             found == [k \in 1..Cardinality(matches) |->
                          <<i, CHOOSE j \in matches :
                                  Cardinality({h \in matches : h < j}) = k - 1>>]
         IN (IF matches = {} THEN <<(<<i, -1>>)>> ELSE found)
               \o LeftPairs(left, right, on, i + 1)

\* The table the claim describes for left_join(left, right, on): out holds
\* left's columns and right's columns not in on, a row for every pair
LeftJoinAsClaimed(left, right, on, out) ==
    LET pairs == LeftPairs(left, right, on, 0) IN
    /\ out.rows = Len(pairs)
    /\ out.column_info = left.column_info \o RightOnly(right, on)
    /\ \A n \in Range(left.column_info) :
          out.columns[n].data
             = [k \in DOMAIN pairs |-> left.columns[n].data[pairs[k][1] + 1]]
    /\ \A n \in Range(RightOnly(right, on)) :
          out.columns[n].data
             = [k \in DOMAIN pairs |->
                  IF pairs[k][2] = -1 THEN get_null(right.columns[n].type)
                  ELSE right.columns[n].data[pairs[k][2] + 1]]

\* C11: left_join(left, right, on) returns, for each left row in order, one
\* row per right row with the same hash over on, or one row with right's
\* columns not in on at their sentinels when there is none (so the row
\* count is the sum of max(1, matches)); right_join(left, right, on) is
\* left_join(right, left, on).
C11_LeftJoinKeepsEveryLeftRow ==
    /\ (last.op = "left_join" /\ OnIsValid) =>
          /\ last.err = "none"
          /\ LeftJoinAsClaimed(jn.left, jn.right, jn.on, jn.out)
    /\ (last.op = "right_join" /\ OnIsValid) =>
          /\ last.err = "none"
          /\ LeftJoinAsClaimed(jn.right, jn.left, jn.on, jn.out)

(***************************************************************************)
(* The call machine: a table is built by add_column, one operation is      *)
(* called on it with arguments that are kept, and drop_duplicates may be   *)
(* called once more.  io.before is the table before the call, io.arg the   *)
(* arguments, io.out the table a call returns.                             *)
(***************************************************************************)
\* The scenario id:Int64 = [1, 2, 2, 3], val:Double = [10.0, null, 20.0, 30.0]
NameVal == <<"v", "a", "l">>
ExampleTable ==
    add_column(add_column(EmptyFrame, NameId, "Int64", <<1, 2, 2, 3>>).df,
               NameVal, "Double", <<20, DBL_LOWEST, 40, 60>>).df

CallTables == CodecTables \cup {ExampleTable}

\* The lists of names a caller passes for t: those of the table machine,
\* and t's own first name and all of t's names
CallSubsets(t) ==
    Subsets \cup {t.column_info}
            \cup {<<t.column_info[k]>> : k \in DOMAIN t.column_info}

CallRun(before, arg, out) == [before |-> before, arg |-> arg, out |-> out]

InitCall ==
    /\ \E t \in CallTables :
          /\ df = t
          /\ io = CallRun(t, <<>>, EmptyFrame)
    /\ last = Called("table", "none")
    /\ cobj = ColumnReserve("Int64")
    /\ jn = <<>>

\* A call on df that ended with outcome r (a fatal outcome has no next
\* state) and returned the table out
CallStep(r, op, arg, out) ==
    /\ ~Fatal(r.err)
    /\ df' = r.df
    /\ io' = CallRun(df, arg, out)
    /\ last' = Called(op, r.err)
    /\ UNCHANGED <<cobj, jn>>

CallDropDuplicates ==
    /\ last.op = "table"
    /\ \E subset \in CallSubsets(df) :
       \E oob \in OobReads(df), selfmove \in SelfMovesOn(df) :
       \E r \in {drop_duplicates(df, subset, oob, selfmove)} :
          CallStep(r, "drop_duplicates", [subset |-> subset], EmptyFrame)

\* The same call once more on the table the first call left
CallDropDuplicatesAgain ==
    /\ last = Called("drop_duplicates", "none")
    /\ \E oob \in OobReads(df), selfmove \in SelfMovesOn(df) :
       \E r \in {drop_duplicates(df, io.arg.subset, oob, selfmove)} :
          CallStep(r, "drop_duplicates again", io.arg, EmptyFrame)

\* The rows of 0..rows-1 outside removal, in order
RECURSIVE KeptRows(_, _, _)
KeptRows(rows, removal, i) ==
    IF i >= rows THEN <<>>
    ELSE (IF i \in removal THEN <<>> ELSE <<i>>) \o KeptRows(rows, removal, i + 1)

\* u is t without the rows of removal: the rows kept are in their order
\* with their values, and the names are as they were
IsWithoutRows(u, t, removal) ==
    LET kept == KeptRows(t.rows, removal, 0) IN
    /\ u.rows = t.rows - Cardinality(removal)
    /\ u.column_info = t.column_info
    /\ DOMAIN u.columns = DOMAIN t.columns
    /\ \A n \in DOMAIN t.columns :
          u.columns[n].data
             = [k \in DOMAIN kept |-> t.columns[n].data[kept[k] + 1]]

\* The rows of t that have the hash of an earlier row over the subset (over
\* all columns when the subset is empty)
LaterDuplicates(t, subset) ==
    {i \in 0..(t.rows - 1) :
        \E j \in 0..(i - 1) :
           compute_row_hash(t, j, TargetColumns(t, subset), 1, WZero)
              = compute_row_hash(t, i, TargetColumns(t, subset), 1, WZero)}

\* C12: drop_duplicates(subset) removes row i exactly when an earlier row
\* has the same hash over the subset columns (all columns for an empty
\* subset); the rows kept stay in order with their values and nrows() drops
\* by the number removed; on id = [1, 2, 2, 3] with subset [id] the ids
\* left are [1, 2, 3].
C12_DropDuplicatesKeepsFirstOfEachHash ==
    (last.op = "drop_duplicates" /\ validate_subset(io.before, io.arg.subset)) =>
        /\ last.err = "none"
        /\ IsWithoutRows(df, io.before,
                         LaterDuplicates(io.before, io.arg.subset))
        /\ (io.before = ExampleTable /\ io.arg.subset = <<NameId>>) =>
              df.columns[NameId].data = <<1, 2, 3>>

\* C19: drop_duplicates(subset) called a second time removes no row: the
\* table after two calls is the table after one.
C19_DropDuplicatesTwiceIsOnce ==
    last.op = "drop_duplicates again" =>
        /\ last.err = "none"
        /\ df.rows = io.before.rows
        /\ df.column_info = io.before.column_info
        /\ \A n \in DOMAIN io.before.columns :
              df.columns[n].data = io.before.columns[n].data

Thresholds == {-1, 0, 1}

CallDropna ==
    /\ last.op = "table"
    /\ \E subset \in CallSubsets(df), threshold \in Thresholds :
       \E oob \in OobReads(df), selfmove \in SelfMovesOn(df) :
       \E r \in {dropna(df, subset, threshold, oob, selfmove)} :
          CallStep(r, "dropna",
                   [subset |-> subset, threshold |-> threshold], EmptyFrame)

\* The rows of t with more than threshold nulls over the subset, the two
\* compared as integers
NullRows(t, subset, threshold) ==
    {i \in 0..(t.rows - 1) :
        RowNullCount(t, TargetColumns(t, subset), i) > threshold}

\* C13: dropna(subset, threshold) removes exactly the rows whose null count
\* over the subset columns is greater than threshold, for every integer
\* threshold, negative ones included, and keeps the others in order with
\* their values; on id = [1, 2, 2, 3], val = [10.0, null, 20.0, 30.0] the
\* default threshold 0 removes the one row whose val is null.
C13_DropnaRemovesRowsOverThreshold ==
    (last.op = "dropna" /\ validate_subset(io.before, io.arg.subset)) =>
        /\ last.err = "none"
        /\ IsWithoutRows(df, io.before,
              NullRows(io.before, io.arg.subset, io.arg.threshold))
        /\ (io.before = ExampleTable /\ io.arg.subset = <<>>
                                     /\ io.arg.threshold = 0) =>
              /\ df.rows = 3
              /\ df.columns[NameId].data = <<1, 2, 3>>

\* The names a caller passes for t: those of the table machine, one more,
\* and t's own
CallNames(t) == Names \cup {NameC} \cup Range(t.column_info)

CallAddColumn ==
    /\ last.op = "table"
    /\ \E name \in CallNames(df), T \in Types :
       \E data \in SeqsUpTo(Vals(T), MaxLen) :
       \E r \in {add_column(df, name, T, data)} :
          CallStep(r, "add_column",
                   [name |-> name, T |-> T, data |-> data], EmptyFrame)

\* data followed by sentinels of T up to n elements
Padded(data, T, n) ==
    [i \in 1..n |-> IF i <= Len(data) THEN data[i] ELSE get_null(T)]

\* C14: add_column(name, data) with a new name on a table of r rows gives a
\* table of max(r, len(data)) rows: data shorter than r is padded with
\* sentinels to r, data longer than r makes nrows() len(data) and every
\* column there was keeps its r values followed by sentinels; the name is
\* appended to the column order and ncols() grows by one.
C14_AddColumnPadsToCommonLength ==
    (last.op = "add_column" /\ ~HasName(io.before, io.arg.name)) =>
        LET r == io.before.rows
            n == IF Len(io.arg.data) > r THEN Len(io.arg.data) ELSE r
        IN /\ last.err = "none"
           /\ df.rows = n
           /\ df.cols = io.before.cols + 1
           /\ df.column_info = Append(io.before.column_info, io.arg.name)
           /\ DOMAIN df.columns = DOMAIN io.before.columns \cup {io.arg.name}
           /\ df.columns[io.arg.name].type = io.arg.T
           /\ df.columns[io.arg.name].data = Padded(io.arg.data, io.arg.T, n)
           /\ \A k \in DOMAIN io.before.columns :
                 /\ df.columns[k].type = io.before.columns[k].type
                 /\ df.columns[k].data
                       = Padded(io.before.columns[k].data,
                                io.before.columns[k].type, n)

\* A longer column was added to a table that had rows and two columns
C14_AddedALongerColumn ==
    /\ last = Called("add_column", "none")
    /\ io.before.rows > 0
    /\ io.before.cols = 2
    /\ Len(io.arg.data) > io.before.rows

CallDropColumn ==
    /\ last.op = "table"
    /\ \E name \in CallNames(df) :
       \E r \in {drop_column(df, name)} :
          CallStep(r, "drop_column", [name |-> name], EmptyFrame)

\* select is const: the table stays and the call returns r.df
CallSelect ==
    /\ last.op = "table"
    /\ \E subset \in CallSubsets(df) :
       \E r \in {select(df, subset)} :
          CallStep(Ret(df, r.err), "select", [subset |-> subset], r.df)

CallSortBy ==
    /\ last.op = "table"
    /\ \E name \in CallNames(df), ascending \in BOOLEAN :
       \E indices \in SortOutcomes(df, name, ascending) :
       \E order \in Orders(DOMAIN df.columns) :
       \E r \in {sort_by(df, name, ascending, indices, order)} :
          CallStep(r, "sort_by",
                   [name |-> name, ascending |-> ascending,
                    indices |-> indices], EmptyFrame)

\* The call made had a bad column-name argument
BadNameArgument ==
    \/ last.op = "add_column" /\ HasName(io.before, io.arg.name)
    \/ last.op \in {"drop_column", "sort_by"}
          /\ ~HasName(io.before, io.arg.name)
    \/ last.op \in {"select", "dropna", "drop_duplicates"}
          /\ ~validate_subset(io.before, io.arg.subset)
    \/ last.op = "select" /\ io.arg.subset = <<>>

\* C15: a table operation called with a bad column-name argument fails and
\* leaves the table as it was: add_column with a name there is, drop_column
\* with a name there is not, select, dropna, drop_duplicates and sort_by
\* with a name there is not, and select with an empty subset.
C15_BadNameChangesNothing ==
    BadNameArgument =>
        /\ last.err # "none"
        /\ df = io.before

\* drop_column failed on a table with rows and two columns
C15_DropColumnFailed ==
    /\ last.op = "drop_column"
    /\ last.err # "none"
    /\ io.before.rows > 0
    /\ io.before.cols = 2

\* slice is const: the table stays and the call returns r.df
CallSlice ==
    /\ last.op = "table"
    /\ \E start \in 0..MaxLen, end \in 0..MaxLen :
       \E past \in PastReads(df, end) :
       \E r \in {slice(df, start, end, past)} :
          CallStep(Ret(df, r.err), "slice",
                   [start |-> start, end |-> end], r.df)

\* u holds rows start..end-1 of every column of t, in t's column order
IsRowRange(u, t, start, end) ==
    /\ u.rows = end - start
    /\ u.cols = t.cols
    /\ u.column_info = t.column_info
    /\ DOMAIN u.columns = DOMAIN t.columns
    /\ \A n \in DOMAIN t.columns :
          /\ u.columns[n].type = t.columns[n].type
          /\ u.columns[n].data = SubSeq(t.columns[n].data, start + 1, end)

\* C16: slice(start, end) fails with OutOfRange when start >= end or
\* end > nrows(); otherwise it returns a new table with rows start..end-1
\* of every column in the column order and leaves the table unchanged.
C16_SliceFailsOnInvalidBounds ==
    last.op = "slice" =>
        /\ df = io.before
        /\ IF io.arg.start >= io.arg.end \/ io.arg.end > io.before.rows
           THEN last.err = "out_of_range"
           ELSE /\ last.err = "none"
                /\ IsRowRange(io.out, io.before, io.arg.start, io.arg.end)

\* C16 as the code has it: an end of 0 or greater than nrows() stands for
\* nrows(); slice fails with OutOfRange when start is not below that end,
\* and otherwise returns rows start..end-1 of every column in the column
\* order, leaving the table unchanged.
C16_SliceClampsEnd ==
    last.op = "slice" =>
        LET e == IF io.arg.end = 0 \/ io.arg.end > io.before.rows
                 THEN io.before.rows ELSE io.arg.end
        IN /\ df = io.before
           /\ IF io.arg.start >= e
              THEN last.err = "out_of_range"
              ELSE /\ last.err = "none"
                   /\ IsRowRange(io.out, io.before, io.arg.start, e)

\* slice returned the last row of a two-column table for an end past it
C16_SlicedPastTheEnd ==
    /\ last = Called("slice", "none")
    /\ io.before.cols = 2
    /\ io.arg.end > io.before.rows
    /\ io.arg.start = io.before.rows - 1
    /\ io.out.rows = 1

\* The permutations of the row indices 0..rows-1
RowPermutations(rows) ==
    {p \in [1..rows -> 0..(rows - 1)] :
        \A i, j \in 1..rows : i # j => p[i] # p[j]}

\* C17: after sort_by(c, ascending) column c is non-decreasing (non-
\* increasing when ascending is false) under the order of its type, the
\* sentinel being a value like any other; every column was rearranged by
\* one and the same permutation of the rows; nrows(), ncols() and the
\* column order are as before.
C17_SortByPermutesRowsIntoOrder ==
    (last.op = "sort_by" /\ HasName(io.before, io.arg.name)) =>
        LET c == df.columns[io.arg.name] IN
        /\ last.err = "none"
        /\ df.rows = io.before.rows
        /\ df.cols = io.before.cols
        /\ df.column_info = io.before.column_info
        /\ DOMAIN df.columns = DOMAIN io.before.columns
        /\ \A i, j \in DOMAIN c.data :
              i < j => ~SortComp(c.type, io.arg.ascending, c.data[j], c.data[i])
        /\ \E p \in RowPermutations(io.before.rows) :
              \A n \in DOMAIN io.before.columns :
                 /\ df.columns[n].type = io.before.columns[n].type
                 /\ df.columns[n].data
                       = [k \in 1..io.before.rows |->
                             io.before.columns[n].data[p[k] + 1]]

\* sort_by moved rows of a two-column table
C17_SortMovedRows ==
    /\ last = Called("sort_by", "none")
    /\ io.before.cols = 2
    /\ \A n \in DOMAIN df.columns :
          df.columns[n].data # io.before.columns[n].data

\* C18: select(subset) with a non-empty subset of pairwise distinct names
\* of the table returns a new table with exactly those columns in subset
\* order, each with the values of the original column and the same
\* nrows(), and leaves the table unchanged; select(column_names()) returns
\* a table equal to the original.
C18_SelectCopiesTheSubset ==
    (/\ last.op = "select"
     /\ Len(io.arg.subset) > 0
     /\ validate_subset(io.before, io.arg.subset)
     /\ NoDuplicates(io.arg.subset)) =>
        /\ last.err = "none"
        /\ df = io.before
        /\ io.out.column_info = io.arg.subset
        /\ io.out.cols = Len(io.arg.subset)
        /\ io.out.rows = io.before.rows
        /\ DOMAIN io.out.columns = Range(io.arg.subset)
        /\ \A n \in Range(io.arg.subset) :
              /\ io.out.columns[n].type = io.before.columns[n].type
              /\ io.out.columns[n].data = io.before.columns[n].data
        /\ io.arg.subset = io.before.column_info
              => operator_eq(io.out, io.before)

\* select returned one column of a two-column table with rows
C18_SelectedOneOfTwo ==
    /\ last = Called("select", "none")
    /\ Len(io.arg.subset) = 1
    /\ io.before.cols = 2
    /\ io.before.rows > 0
    /\ io.out.cols = 1

CallDropRow ==
    /\ last.op = "table"
    /\ \E index \in 0..(MaxLen + 1) :
       \E r \in {drop_row(df, index)} :
          CallStep(r, "drop_row", [index |-> index], EmptyFrame)

\* C20: drop_row(index) with index < nrows() removes the element at index
\* from every column, keeps the other rows in order and makes nrows() one
\* less; with index >= nrows() it fails with OutOfRange and changes
\* nothing.
C20_DropRowRemovesOneRow ==
    last.op = "drop_row" =>
        IF io.arg.index < io.before.rows
        THEN /\ last.err = "none"
             /\ df.rows = io.before.rows - 1
             /\ df.cols = io.before.cols
             /\ IsWithoutRows(df, io.before, {io.arg.index})
        ELSE /\ last.err = "out_of_range: index"
             /\ df = io.before

\* drop_row removed the first of two rows of a two-column table
C20_DroppedFirstOfTwoRows ==
    /\ last = Called("drop_row", "none")
    /\ io.arg.index = 0
    /\ io.before.rows = 2
    /\ io.before.cols = 2

NextCall ==
    \/ CallDropDuplicates
    \/ CallDropDuplicatesAgain
    \/ CallDropna
    \/ CallAddColumn
    \/ CallDropColumn
    \/ CallSelect
    \/ CallSortBy
    \/ CallSlice
    \/ CallDropRow

SpecCall == InitCall /\ [][NextCall]_vars

(***************************************************************************)
(* The decoding machine: the encoding of a table is cut short or given a   *)
(* type tag no type has and then read; the bytes of one of its columns are *)
(* cut and read, or read whole.  io.data is what was read, io.out the      *)
(* table returned, cobj the column returned and jn the column written.     *)
(***************************************************************************)
\* Tags that stand for no ColumnType
BadTags == {3, 255, 256}

\* to_bytes(t) with tag in the place of the type tag of column number j
RECURSIVE columns_with_tag(_, _, _, _)
columns_with_tag(t, i, j, tag) ==
    IF i > Len(t.column_info) THEN <<>>
    ELSE LET c == t.columns[t.column_info[i]] IN
         LE(IF i = j THEN tag ELSE TypeTag(c.type), 4) \o column_to_bytes(c, 1)
            \o columns_with_tag(t, i + 1, j, tag)

BytesWithTag(t, j, tag) ==
    LE(t.rows, 8) \o LE(t.cols, 8) \o names_to_bytes(t.column_info, 1)
       \o columns_with_tag(t, 1, j, tag)

\* The lengths at which the bytes of column c end after a whole element
WholeLengths(c) ==
    {Len(column_to_bytes([c EXCEPT !.data = SubSeq(c.data, 1, n)], 1)) :
        n \in 0..Len(c.data)}

\* The lengths that cut the bytes of c to nothing or inside an element
CutLengths(c) ==
    {0} \cup ((0..Len(column_to_bytes(c, 1))) \ WholeLengths(c))

FromBytesPrefix ==
    /\ last.op = "table"
    /\ \E k \in 0..(Len(to_bytes(io.t)) - 1), size_read \in SizeReads :
       \E r \in {from_bytes(Sub(to_bytes(io.t), 0, k), size_read)} :
          /\ io' = Run(io.t, Sub(to_bytes(io.t), 0, k), r.df)
          /\ last' = Called("from_bytes of a prefix", r.err)
    /\ UNCHANGED <<df, cobj, jn>>

FromBytesBadTag ==
    /\ last.op = "table"
    /\ \E j \in DOMAIN io.t.column_info, tag \in BadTags :
       \E size_read \in SizeReads :
       \E r \in {from_bytes(BytesWithTag(io.t, j, tag), size_read)} :
          /\ io' = Run(io.t, BytesWithTag(io.t, j, tag), r.df)
          /\ last' = Called("from_bytes of a bad tag", r.err)
    /\ UNCHANGED <<df, cobj, jn>>

ColumnFromBytesCut ==
    /\ last.op = "table"
    /\ \E n \in DOMAIN io.t.columns :
       \E k \in CutLengths(io.t.columns[n]) :
       \E r \in {column_from_bytes(io.t.columns[n].type,
                    Sub(column_to_bytes(io.t.columns[n], 1), 0, k))} :
          /\ io' = Run(io.t, Sub(column_to_bytes(io.t.columns[n], 1), 0, k),
                       EmptyFrame)
          /\ jn' = io.t.columns[n]
          /\ cobj' = r.col
          /\ last' = Called("Column::from_bytes of a cut", r.err)
    /\ UNCHANGED df

ColumnRoundTrip ==
    /\ last.op = "table"
    /\ \E n \in DOMAIN io.t.columns :
       \E r \in {column_from_bytes(io.t.columns[n].type,
                    column_to_bytes(io.t.columns[n], 1))} :
          /\ io' = Run(io.t, column_to_bytes(io.t.columns[n], 1), EmptyFrame)
          /\ jn' = io.t.columns[n]
          /\ cobj' = r.col
          /\ last' = Called("Column::from_bytes of to_bytes", r.err)
    /\ UNCHANGED df

NextDecode ==
    \/ FromBytesPrefix
    \/ FromBytesBadTag
    \/ ColumnFromBytesCut
    \/ ColumnRoundTrip

SpecDecode == InitBytes /\ [][NextDecode]_vars

IsDecodeError(e) == e \in {"runtime_error: size", "runtime_error: name length",
                           "runtime_error: name", "runtime_error: column type",
                           "runtime_error: type", "runtime_error: string length",
                           "runtime_error: string data",
                           "runtime_error: column data",
                           "runtime_error: empty bytes"}

\* C21: from_bytes of a strict prefix of a table's encoding, or of an
\* encoding with a type tag other than 0, 1 and 2, returns an error and no
\* table; Column::from_bytes returns an error for no bytes, for numeric
\* bytes whose number is not a multiple of 8 and for string bytes cut inside
\* a length or inside a string.
C21_TruncatedBytesAreAnError ==
    last.op \in {"from_bytes of a prefix", "from_bytes of a bad tag",
                 "Column::from_bytes of a cut"}
        => /\ IsDecodeError(last.err)
           /\ io.out = EmptyFrame
           /\ cobj.data = <<>>

\* The bytes of a table with two string columns were cut inside the second
\* column and refused
C21_CutInsideSecondColumn ==
    /\ last.op = "from_bytes of a prefix"
    /\ last.err = "runtime_error: string data"
    /\ io.t.cols = 2
    /\ Len(io.data) = Len(to_bytes(io.t)) - 1

\* C22: for every non-empty column c of any type, sentinels included,
\* Column::from_bytes(c.to_bytes()) has as many rows as c and the same
\* elements.
C22_ColumnBytesRoundTrip ==
    (last.op = "Column::from_bytes of to_bytes" /\ Len(jn.data) > 0) =>
        /\ last.err = "none"
        /\ cobj.type = jn.type
        /\ Len(cobj.data) = Len(jn.data)
        /\ cobj.data = jn.data

\* A string column of a sentinel and a string was written and read
C22_ReadBackSentinelAndString ==
    /\ last = Called("Column::from_bytes of to_bytes", "none")
    /\ jn.type = "String"
    /\ jn.data = <<(<<>>), <<"x">>>>
    /\ cobj.data = jn.data

(***************************************************************************)
(* The line machine: a text whose data lines may be blank or have too few  *)
(* or too many fields is read.  io.lines are the lines after the header as *)
(* they stand in the file, io.line the line number of the error.           *)
(***************************************************************************)
\* The data lines as they stand in a file: empty, blank, of one field, of
\* two fields and of three
RawLines == {<<>>, <<" ">>, <<"1">>, <<"1", ",", "x">>, <<"1", ",", ",">>}

RawText(header, lines, newline_at_end) ==
    JoinWith(header, Comma, 1) \o <<"\n">> \o JoinWith(lines, "\n", 1)
       \o (IF newline_at_end THEN <<"\n">> ELSE <<>>)

InitLines ==
    /\ \E header \in CsvHeaders :
       \E lines \in SeqsUpTo(RawLines, MaxLen) :
       \E newline_at_end \in {b \in BOOLEAN : Len(lines) > 0 \/ ~b} :
          io = CsvRun("lines", EmptyFrame, header, lines,
                      RawText(header, lines, newline_at_end))
    /\ last = Called("text", "none")
    /\ df = EmptyFrame
    /\ cobj = ColumnReserve("Int64")
    /\ jn = <<>>

NextLines == FromCsv \/ MemberFromCsv

SpecLines == InitLines /\ [][NextLines]_vars

\* Line i of io.lines is not blank and has another number of fields than
\* the header
IsMalformed(i) ==
    /\ Len(trim(io.lines[i])) > 0
    /\ Len(to_tokens(io.lines[i], Comma)) # Len(io.header)

\* C23: when a data line has a token count other than the header's,
\* from_csv fails, returns no table, and the line number of the error is
\* the position of that line in the file counted from 1 with the header as
\* line 1, blank lines before it counted as well.
C23_ErrorNamesTheLineInTheFile ==
    (/\ io.origin = "lines"
     /\ last.op \in {"from_csv", "DataFrame::from_csv"}
     /\ \E i \in DOMAIN io.lines : IsMalformed(i)) =>
        LET first == CHOOSE i \in DOMAIN io.lines :
                        /\ IsMalformed(i)
                        /\ \A j \in 1..(i - 1) : ~IsMalformed(j)
        IN /\ last.err = "runtime_error: malformed line"
           /\ io.out = EmptyFrame
           /\ io.line = first + 1

(***************************************************************************)
(* Column<T>::mode (core/column.h) and the mode machine: a column is built *)
(* from a vector and mode() is called on it once.  io holds the list       *)
(* returned.                                                               *)
(***************************************************************************)
ModeLoopKeepsAll(frequency, order, i, max_frequency, modes) == order

\* The loop of mode over the frequency map in iteration order, from entry i
RECURSIVE mode_loop(_, _, _, _, _)
mode_loop(frequency, order, i, max_frequency, modes) ==
    IF i > Len(order) THEN modes
    ELSE LET value == order[i]
             count == frequency[value]
         IN IF count > max_frequency
            THEN mode_loop(frequency, order, i + 1, count, <<value>>)
            ELSE IF count = max_frequency
            THEN mode_loop(frequency, order, i + 1, max_frequency,
                           Append(modes, value))
            ELSE mode_loop(frequency, order, i + 1, max_frequency, modes)

\* The non-null values of a column and how often each occurs
Counted(c) == {c.data[i] : i \in {k \in DOMAIN c.data : ~is_null(c.type, c.data[k])}}
Occurrences(c, v) == Cardinality({i \in DOMAIN c.data : c.data[i] = v})

ModeOfEveryValue(c, order) == [modes |-> order, err |-> "none"]

\* Column<T>::mode(); order is the iteration order of the frequency map
mode(c, order) ==
    IF Len(c.data) = 0 THEN [modes |-> <<>>, err |-> "invalid_argument: empty"]
    ELSE IF Counted(c) = {}
    THEN [modes |-> <<>>, err |-> "invalid_argument: all nulls"]
    ELSE [modes |-> mode_loop([v \in Counted(c) |-> Occurrences(c, v)],
                              order, 1, 2, <<>>),
          err |-> "none"]

MaxCells == 6

\* The cells of the columns whose mode is taken: the sentinel and three
\* more values of each type
ModeVals(T) ==
    CASE T = "Int64" -> {INT64_MIN, 1, 2, 3}
      [] T = "Double" -> {DBL_LOWEST, 3, 4, 5}
      [] T = "String" -> {<<>>, <<"x">>, <<"y">>, <<"z">>}

InitMode ==
    /\ \E T \in Types : \E d \in SeqsUpTo(ModeVals(T), MaxCells) :
          cobj = ColumnFromVector(T, d)
    /\ io = <<>>
    /\ last = Called("column", "none")
    /\ df = EmptyFrame
    /\ jn = <<>>

Mode ==
    /\ last.op = "column"
    /\ \E order \in Orders(Counted(cobj)) : \E r \in {mode(cobj, order)} :
          /\ io' = r.modes
          /\ last' = Called("mode", r.err)
    /\ UNCHANGED <<df, cobj, jn>>

NextMode == Mode

SpecMode == InitMode /\ [][NextMode]_vars

\* The largest number of occurrences of a non-null value of cobj
MaxOccurrences ==
    CHOOSE n \in 1..Len(cobj.data) :
       /\ \E v \in Counted(cobj) : Occurrences(cobj, v) = n
       /\ \A v \in Counted(cobj) : Occurrences(cobj, v) <= n

\* io lists, each once, the values that occur at least least times and as
\* often as any; it is empty when no value occurs that often
ListsTheMostFrequent(least) ==
    IF MaxOccurrences >= least
    THEN /\ Range(io) = {v \in Counted(cobj) :
                            Occurrences(cobj, v) = MaxOccurrences}
         /\ NoDuplicates(io)
    ELSE io = <<>>

ModeFails ==
    last.err = IF Len(cobj.data) = 0 THEN "invalid_argument: empty"
               ELSE "invalid_argument: all nulls"

\* C24: mode() returns exactly the non-null values whose count is maximal
\* when that count is at least 3, and an empty list when it is 1 or 2; it
\* fails with InvalidArgument on a column that is empty or all nulls.
C24_ModeNeedsThreeOccurrences ==
    last.op = "mode" =>
        IF Counted(cobj) = {} THEN ModeFails
        ELSE last.err = "none" /\ ListsTheMostFrequent(3)

\* C24 as the code has it: the maximal count has to be at least 2, so the
\* list is empty only when every non-null value occurs once.
C24_ModeNeedsTwoOccurrences ==
    last.op = "mode" =>
        IF Counted(cobj) = {} THEN ModeFails
        ELSE last.err = "none" /\ ListsTheMostFrequent(2)

\* mode() returned two values that occur three times each
C24_TwoValuesThreeTimes ==
    /\ last = Called("mode", "none")
    /\ Len(io) = 2
    /\ MaxOccurrences = 3

\* The values that occur exactly n times in cobj
OccurringTimes(n) == {v \in Counted(cobj) : Occurrences(cobj, v) = n}

\* C25: mode() returns an empty list when every non-null value occurs
\* once; the one value when one value occurs twice and the others once;
\* the two values, in any order, when two values occur twice and the
\* others once.
C25_ModeAsTheTestAsserts ==
    (last.op = "mode" /\ Counted(cobj) # {} /\ MaxOccurrences <= 2) =>
        /\ last.err = "none"
        /\ OccurringTimes(2) = {} => io = <<>>
        /\ Cardinality(OccurringTimes(2)) \in {1, 2} =>
              /\ Len(io) = Cardinality(OccurringTimes(2))
              /\ Range(io) = OccurringTimes(2)

\* mode() returned the two values that occur twice beside a third value and
\* a null
C25_TwoValuesTwice ==
    /\ last = Called("mode", "none")
    /\ Cardinality(OccurringTimes(2)) = 2
    /\ OccurringTimes(1) # {}
    /\ cobj.null_count = 1
    /\ Len(io) = 2

(***************************************************************************)
(* Row (row.h) and the row machine: get, set and update are called on one  *)
(* Row.  jn is Row::data, io the last call: the row before it, its         *)
(* arguments and what get returned (<<>> for no value).                    *)
(***************************************************************************)
\* Row::get<T>(column_name): an optional
get(row, T, column_name) ==
    IF column_name \notin DOMAIN row THEN [value |-> <<>>, err |-> "none"]
    ELSE IF row[column_name].type # T
    THEN [value |-> <<>>, err |-> "bad_variant_access"]
    ELSE [value |-> <<row[column_name].val>>, err |-> "none"]

SetOverwrites(row, T, column_name, value) ==
    [row |-> (column_name :> [type |-> T, val |-> value]) @@ row, err |-> "none"]

\* Row::set<T>(column_name, value)
set(row, T, column_name, value) ==
    IF column_name \in DOMAIN row
    THEN IF row[column_name].type # T
         THEN [row |-> row, err |-> "bad_variant_access"]
         ELSE [row |-> [row EXCEPT ![column_name].val = value], err |-> "none"]
    ELSE [row |-> (column_name :> [type |-> T, val |-> value]) @@ row,
          err |-> "none"]

\* Row::update<T>(column_name, value)
row_update(row, T, column_name, value) ==
    IF column_name \notin DOMAIN row
    THEN [row |-> row, err |-> "out_of_range"]
    ELSE IF row[column_name].type # T
    THEN [row |-> row, err |-> "bad_variant_access"]
    ELSE [row |-> [row EXCEPT ![column_name].val = value], err |-> "none"]

RowCall(before, T, name, value, got) ==
    [before |-> before, T |-> T, name |-> name, value |-> value, got |-> got]

InitRow ==
    /\ \E row \in RowMaps :
          /\ jn = row
          /\ io = RowCall(row, "Int64", NameA, <<>>, <<>>)
    /\ last = Called("Row", "none")
    /\ df = EmptyFrame
    /\ cobj = ColumnReserve("Int64")

RowGet ==
    /\ \E T \in Types, name \in Names : \E r \in {get(jn, T, name)} :
          /\ io' = RowCall(jn, T, name, <<>>, r.value)
          /\ last' = Called("get", r.err)
    /\ UNCHANGED <<df, cobj, jn>>

RowSet ==
    /\ \E T \in Types, name \in Names : \E value \in Vals(T) :
       \E r \in {set(jn, T, name, value)} :
          /\ jn' = r.row
          /\ io' = RowCall(jn, T, name, <<value>>, <<>>)
          /\ last' = Called("set", r.err)
    /\ UNCHANGED <<df, cobj>>

RowUpdate ==
    /\ \E T \in Types, name \in Names : \E value \in Vals(T) :
       \E r \in {row_update(jn, T, name, value)} :
          /\ jn' = r.row
          /\ io' = RowCall(jn, T, name, <<value>>, <<>>)
          /\ last' = Called("update", r.err)
    /\ UNCHANGED <<df, cobj>>

NextRow == RowGet \/ RowSet \/ RowUpdate

SpecRow == InitRow /\ [][NextRow]_vars

\* The name of the last call is stored in the row before it, with a value
\* of another type than the call's
OtherTypeStored ==
    /\ io.name \in DOMAIN io.before
    /\ io.before[io.name].type # io.T

\* C26: set<T> and update<T> on a name stored with another type throw
\* bad_variant_access and leave the row as it was; update on an absent name
\* throws out_of_range and adds nothing; set on an absent name adds it;
\* get<T> returns no value for an absent name and throws
\* bad_variant_access for a name stored with another type.
C26_RowKeepsItsTypes ==
    /\ (last.op \in {"set", "update"} /\ OtherTypeStored) =>
          last.err = "bad_variant_access" /\ jn = io.before
    /\ (last.op = "update" /\ io.name \notin DOMAIN io.before) =>
          last.err = "out_of_range" /\ jn = io.before
    /\ (last.op = "set" /\ io.name \notin DOMAIN io.before) =>
          /\ last.err = "none"
          /\ DOMAIN jn = DOMAIN io.before \cup {io.name}
          /\ jn[io.name] = [type |-> io.T, val |-> io.value[1]]
          /\ \A n \in DOMAIN io.before : jn[n] = io.before[n]
    /\ (last.op = "get" /\ io.name \notin DOMAIN io.before) =>
          last.err = "none" /\ io.got = <<>>
    /\ (last.op = "get" /\ OtherTypeStored) =>
          last.err = "bad_variant_access"

\* set was refused for a Double on a name that holds a string, in a row of
\* two names
C26_SetOfAnotherTypeRefused ==
    /\ last = Called("set", "bad_variant_access")
    /\ io.T = "Double"
    /\ io.before[io.name].type = "String"
    /\ Cardinality(DOMAIN jn) = 2

(***************************************************************************)
(* The sample machine: a text of one column with about a hundred data      *)
(* lines, one of which may be a word, one a fraction and one blank, has    *)
(* its types inferred or is read.  io.lines are the lines after the header *)
(* as they stand in the file, io.types the types inferred.                 *)
(***************************************************************************)
\* The numbers of lines after the header, and the places of the special
\* lines (0 for none)
SampleSizes == {3, 98, 99, 100}
SamplePlaces == {0, 1, 97, 98, 99, 100}
BlankPlaces == {0, 1, 50}

SampleLines(n, word, fraction, blank) ==
    [i \in 1..n |->
        IF i = blank THEN <<>>
        ELSE IF i = word THEN <<"x">>
        ELSE IF i = fraction THEN <<"1", ".", "5">>
        ELSE <<"1">>]

InitSample ==
    /\ \E n \in SampleSizes, word \in SamplePlaces, fraction \in SamplePlaces,
          blank \in BlankPlaces, newline_at_end \in BOOLEAN :
          io = CsvRun("sample", EmptyFrame, <<NameA>>,
                      SampleLines(n, word, fraction, blank),
                      RawText(<<NameA>>, SampleLines(n, word, fraction, blank),
                              newline_at_end))
    /\ last = Called("text", "none")
    /\ df = EmptyFrame
    /\ cobj = ColumnReserve("Int64")
    /\ jn = <<>>

InferTypes ==
    /\ last.op = "text"
    /\ io' = [io EXCEPT !.types = infer_types(io.data, io.header, NoTypes, Comma)]
    /\ last' = Called("infer_types", "none")
    /\ UNCHANGED <<df, cobj, jn>>

NextSample == InferTypes

SpecSample == InitSample /\ [][NextSample]_vars

\* The non-blank lines among io.lines, in order
DataLines == SelectSeq(io.lines, LAMBDA l : Len(trim(l)) > 0)

\* The fields of column number j in the first n data lines that are not
\* empty
Sampled(j, n) ==
    {to_tokens(DataLines[i], Comma)[j] :
        i \in {k \in DOMAIN DataLines :
                  /\ k <= n
                  /\ j <= Len(to_tokens(DataLines[k], Comma))
                  /\ Len(to_tokens(DataLines[k], Comma)[j]) > 0}}

\* The most specific type that every field sampled parses completely as
TypeOfSample(j, n) ==
    IF \A v \in Sampled(j, n) : try_parse("Int64", v) THEN "Int64"
    ELSE IF \A v \in Sampled(j, n) : try_parse("Double", v) THEN "Double"
    ELSE "String"

\* C27: a column without a supplied type gets the type of its first 99
\* non-blank data rows: Int64 if every non-empty value sampled parses
\* completely as an integer, else Double if every one parses completely as
\* a double, else String; later rows have no influence.
C27_InferenceSamples99Rows ==
    last.op = "infer_types" =>
        \A j \in DOMAIN io.header : io.types[io.header[j]] = TypeOfSample(j, 99)

\* C27 as the code has it: the sample is the first 98 non-blank data rows.
C27_InferenceSamples98Rows ==
    last.op = "infer_types" =>
        \A j \in DOMAIN io.header : io.types[io.header[j]] = TypeOfSample(j, 98)

\* Types were inferred as Double from a fraction in data row 98, with a
\* word in data row 99 left out of the sample
C27_WordInRow99NotSampled ==
    /\ last.op = "infer_types"
    /\ Len(DataLines) >= 99
    /\ DataLines[98] = <<"1", ".", "5">>
    /\ DataLines[99] = <<"x">>
    /\ io.types[NameA] = "Double"


(***************************************************************************)
(* The tokenizer on one line (io/csv.cpp, utils.h)                         *)
(***************************************************************************)
MaxLine == 5
LineChars == {"a", ",", ";", "\"", " "}
Delimiters == {",", ";"}

InitTokens ==
    /\ \E line \in SeqsUpTo(LineChars, MaxLine), delimiter \in Delimiters :
          io = [origin |-> "line", line |-> line, delimiter |-> delimiter,
                tokens |-> <<>>]
    /\ last = Called("line", "none")
    /\ df = EmptyFrame
    /\ cobj = ColumnReserve("Int64")
    /\ jn = <<>>

ToTokens ==
    /\ last.op = "line"
    /\ io' = [io EXCEPT !.tokens = to_tokens(io.line, io.delimiter)]
    /\ last' = Called("to_tokens", "none")
    /\ UNCHANGED <<df, cobj, jn>>

NextTokens == ToTokens

SpecTokens == InitTokens /\ [][NextTokens]_vars

\* The positions of the delimiters of the line that an even number of
\* quote characters precedes
SplitPoints(line, delimiter) ==
    {i \in DOMAIN line :
        /\ line[i] = delimiter
        /\ Cardinality({k \in 1..(i - 1) : line[k] = "\""}) % 2 = 0}

\* The k-th of them from the left
SplitAt(line, delimiter, k) ==
    CHOOSE i \in SplitPoints(line, delimiter) :
        Cardinality({j \in SplitPoints(line, delimiter) : j < i}) = k - 1

\* The k-th stretch of the line between two split points
Piece(line, delimiter, k) ==
    SubSeq(line,
           IF k = 1 THEN 1 ELSE SplitAt(line, delimiter, k - 1) + 1,
           IF k = Cardinality(SplitPoints(line, delimiter)) + 1 THEN Len(line)
           ELSE SplitAt(line, delimiter, k) - 1)

\* A text without the whitespace around it
Trimmed(text) ==
    LET inside == {i \in DOMAIN text : ~IsSpace(text[i])}
    IN IF inside = {} THEN <<>>
       ELSE SubSeq(text, CHOOSE i \in inside : \A k \in inside : i <= k,
                         CHOOSE i \in inside : \A k \in inside : k <= i)

\* A text without one pair of enclosing quotes
Unquoted(text) ==
    IF Len(text) >= 2 /\ text[1] = "\"" /\ text[Len(text)] = "\""
    THEN SubSeq(text, 2, Len(text) - 1) ELSE text

\* C28: to_tokens splits exactly at the delimiters outside quoted spans (an
\* even number of quotes before them), so it returns one token more than
\* there are such delimiters, in order, each the stretch between two split
\* points trimmed of whitespace and then stripped of one pair of enclosing
\* quotes; a delimiter inside quotes stays in its token.
C28_TokensAreThePiecesBetweenSplitPoints ==
    last.op = "to_tokens" =>
        /\ Len(io.tokens) = Cardinality(SplitPoints(io.line, io.delimiter)) + 1
        /\ \A k \in DOMAIN io.tokens :
              io.tokens[k] = Unquoted(Trimmed(Piece(io.line, io.delimiter, k)))

\* The line "a,a" in quotes came back as the one token a,a
C28_QuotedDelimiterKept ==
    /\ last.op = "to_tokens"
    /\ io.line = <<"\"", "a", ",", "a", "\"">>
    /\ io.delimiter = ","
    /\ io.tokens = << <<"a", ",", "a">> >>


\* C29: for two tables and an on list valid for both, a name shared by both
\* tables and not in on included, inner_join and left_join return a table
\* in which every column is nrows() long and no name is listed twice.
C29_JoinReturnsAConsistentTable ==
    (last.op \in {"inner_join", "left_join"} /\ OnIsValid) =>
        /\ last.err = "none"
        /\ NoDuplicates(jn.out.column_info)
        /\ \A n \in Range(jn.out.column_info) :
              Len(jn.out.columns[n].data) = jn.out.rows

\* The same for operands that share no name outside on
DisjointNamesJoinConsistently ==
    (/\ last.op \in {"inner_join", "left_join"}
     /\ OnIsValid
     /\ Range(jn.left.column_info) \cap Range(jn.right.column_info)
            \subseteq Range(jn.on)) =>
        /\ last.err = "none"
        /\ NoDuplicates(jn.out.column_info)
        /\ \A n \in Range(jn.out.column_info) :
              Len(jn.out.columns[n].data) = jn.out.rows


\* The fields of column j of the text that are not empty and do not parse
\* completely as the type T, as the numbers of their data lines
Unparsed(T, j) ==
    {i \in DOMAIN io.lines :
        Len(io.lines[i][j]) > 0 /\ ~try_parse(T, io.lines[i][j])}

\* The cells of a column that is_null finds null
NullCells(c) == {i \in DOMAIN c.data : is_null(c.type, c.data[i])}

\* C30: when a text is read, a field of an Int64 or Double column that is
\* not empty and does not parse completely as that type is stored as the
\* null sentinel and counted in null_count, and the reading goes on without
\* an error.
C30_UnparsedFieldsBecomeNulls ==
    (io.origin = "text" /\ last.op \in {"from_csv", "DataFrame::from_csv"}) =>
        \A j \in DOMAIN io.header :
            LET T == IF io.header[j] \in DOMAIN io.types
                     THEN io.types[io.header[j]] ELSE "String"
                c == io.out.columns[io.header[j]]
            IN (T \in {"Int64", "Double"} /\ Unparsed(T, j) # {}) =>
                  /\ last.err = "none"
                  /\ c.type = T
                  /\ \A i \in Unparsed(T, j) : c.data[i] = get_null(T)
                  /\ c.null_count = Cardinality(NullCells(c))

\* A word and a fraction under a column read as Int64 became two nulls
C30_WordAndFractionUnderInt64 ==
    /\ io.origin = "text"
    /\ last = Called("from_csv", "none")
    /\ io.header = <<NameA>>
    /\ io.types = [k \in {NameA} |-> "Int64"]
    /\ io.lines = <<(<<(<<"x">>)>>), (<<(<<"1", ".", "5">>)>>)>>
    /\ io.out.columns[NameA].data[1] = INT64_MIN
    /\ io.out.columns[NameA].data[2] = INT64_MIN
    /\ io.out.columns[NameA].null_count >= 2

====
